---- MODULE Spec2Model ----
(***************************************************************************)
(* Token issuance and authorization core of the user service: the role /   *)
(* permission graph of the credential store, UserAuthService's resolution  *)
(* of a user's roles and permissions, AuthService.generateToken, and the   *)
(* authenticateToken / requirePermissions middleware chain.                *)
(***************************************************************************)
EXTENDS Integers, Sequences, FiniteSets, TLC

VARIABLES
    users,      \* table "users": stored id -> row
    roles,      \* table "roles": stored id -> row
    userRoles,  \* join table "user_roles": set of <<user id, role id>>
    rolePerms,  \* join table "role_permissions": set of <<role id, permission id>>
    config,     \* config.jwt, read once at startup
    now,        \* the clock, in epoch seconds
    gen,        \* the generateToken call in flight (between its store read and its return)
    issued,     \* what the latest generateToken call returned (NULL while it runs or if it threw)
    req,        \* the HTTP request being served by the middleware chain
    call,       \* the AuthService call in flight, then what it returned or threw
    publisher,  \* RabbitMQEventPublisher's fields, and what it handed to the channel
    brokerUp,   \* whether the message broker accepts connections
    procs,      \* the calls that run concurrently: each one's position and locals
    sys         \* the Node process: random bytes drawn, shutdown flag, what is open

vars == <<users, roles, userRoles, rolePerms, config, now, gen, issued, req,
          call, publisher, brokerUp, procs, sys>>


----------------------------------------------------------------------------
(* Values *)

\* JavaScript null / undefined of an object-typed value.
NULL == [null |-> TRUE]

UserIds == {"u1", "u2"}
RoleIds == {"r1", "r2"}
\* The name each role is created under.
RoleNameOf(r) == IF r = "r1" THEN "org_admin" ELSE "analyst"

\* The rows of table "permissions" (reconciled at startup, never changed
\* afterwards); a part of the catalog of config/permissions.ts.
PermIds == {"p1", "p2", "p3"}

PermName(p) ==
    CASE p = "p1" -> "users:read"
      [] p = "p2" -> "users:manage"
      [] p = "p3" -> "projects:read"

\* The permissions that administrators grant and revoke while Spec runs.
GrantablePermIds == {"p1", "p2"}

\* Character strings are sequences of one-character strings.
Email(u) == IF u = "u1" THEN <<"a", "@", "x">> ELSE <<"b", "@", "x">>
FirstName(u) == IF u = "u1" THEN <<"A">> ELSE <<>>
LastName(u) == IF u = "u1" THEN <<"L">> ELSE <<"B">>

Range(s) == {s[i] : i \in DOMAIN s}

NoDuplicates(s) == \A i, j \in DOMAIN s : s[i] = s[j] => i = j

\* Every order in which the rows of a set can come back from a query that
\* has no ORDER BY.
OrdersOf(S) ==
    {s \in [1..Cardinality(S) -> S] : \A i, j \in 1..Cardinality(S) : s[i] = s[j] => i = j}

----------------------------------------------------------------------------
(* The store: UserRepository, RoleRepository, RoleService *)

CreateUserRow(u) ==
    [id |-> u, email |-> Email(u), firstName |-> FirstName(u),
     lastName |-> LastName(u), organizationId |-> NULL]

\* userRepository.createUser: a new row, no roles.
CreateUser(u) ==
    /\ u \notin DOMAIN users
    /\ \A v \in DOMAIN users : users[v].email # Email(u)
    /\ users' = [v \in DOMAIN users \cup {u} |-> IF v = u THEN CreateUserRow(u) ELSE users[v]]
    /\ UNCHANGED <<roles, userRoles, rolePerms, config, now, gen, issued, req, call, publisher, brokerUp,
                   procs, sys>>

\* roleService.createRole: rejected (400) when the name is taken.
CreateRole(r, name) ==
    /\ r \notin DOMAIN roles
    /\ \A q \in DOMAIN roles : roles[q].name # name
    /\ roles' = [q \in DOMAIN roles \cup {r} |-> IF q = r THEN [id |-> r, name |-> name] ELSE roles[q]]
    /\ UNCHANGED <<users, userRoles, rolePerms, config, now, gen, issued, req, call, publisher, brokerUp,
                   procs, sys>>

\* roleService.deleteRole: the row and, by ON DELETE CASCADE, its join rows.
DeleteRole(r) ==
    /\ r \in DOMAIN roles
    /\ roles' = [q \in DOMAIN roles \ {r} |-> roles[q]]
    /\ userRoles' = {ur \in userRoles : ur[2] # r}
    /\ rolePerms' = {rp \in rolePerms : rp[1] # r}
    /\ UNCHANGED <<users, config, now, gen, issued, req, call, publisher, brokerUp,
                   procs, sys>>

\* roleRepository.addPermissionToRole: pushes the permission unless the role
\* has it already.
AddPermissionToRole(r, p) ==
    /\ r \in DOMAIN roles
    /\ p \in PermIds
    /\ rolePerms' = IF <<r, p>> \in rolePerms THEN rolePerms ELSE rolePerms \cup {<<r, p>>}
    /\ UNCHANGED <<users, roles, userRoles, config, now, gen, issued, req, call, publisher, brokerUp,
                   procs, sys>>

\* roleRepository.removePermissionFromRole: filters the permission out.
RemovePermissionFromRole(r, p) ==
    /\ r \in DOMAIN roles
    /\ rolePerms' = {rp \in rolePerms : rp # <<r, p>>}
    /\ UNCHANGED <<users, roles, userRoles, config, now, gen, issued, req, call, publisher, brokerUp,
                   procs, sys>>

\* userRepository.addRoleToUser: pushes the role unless the user has it.
AddRoleToUser(u, r) ==
    /\ u \in DOMAIN users
    /\ r \in DOMAIN roles
    /\ userRoles' = IF <<u, r>> \in userRoles THEN userRoles ELSE userRoles \cup {<<u, r>>}
    /\ UNCHANGED <<users, roles, rolePerms, config, now, gen, issued, req, call, publisher, brokerUp,
                   procs, sys>>

\* userRepository.removeRoleFromUser: filters the role out.
RemoveRoleFromUser(u, r) ==
    /\ u \in DOMAIN users
    /\ userRoles' = {ur \in userRoles : ur # <<u, r>>}
    /\ UNCHANGED <<users, roles, rolePerms, config, now, gen, issued, req, call, publisher, brokerUp,
                   procs, sys>>

RolesOfUser(u) == {r \in DOMAIN roles : <<u, r>> \in userRoles}
PermsOfRole(r) == {p \in PermIds : <<r, p>> \in rolePerms}

\* A role loaded with every row of table "permissions" instead of its own.
LoadedRoleWithWholeCatalog(r, pOrd) ==
    [id |-> r, name |-> roles[r].name,
     permissions |-> [i \in 1..3 |-> [id |-> <<"p1", "p2", "p3">>[i],
                                      name |-> PermName(<<"p1", "p2", "p3">>[i])]]]

\* One role as loaded with relation 'roles.permissions', its permissions in
\* the order pOrd[r].
LoadedRole(r, pOrd) ==
    [id |-> r, name |-> roles[r].name,
     permissions |-> [i \in DOMAIN pOrd[r] |-> [id |-> pOrd[r][i], name |-> PermName(pOrd[r][i])]]]

\* userRepository.findUserWithRoles: null, or the row with its roles in the
\* order rOrd and each role's permissions in the order pOrd[r].
FindUserWithRoles(u, rOrd, pOrd) ==
    IF u \notin DOMAIN users THEN NULL
    ELSE [id |-> u, email |-> users[u].email, firstName |-> users[u].firstName,
          lastName |-> users[u].lastName, organizationId |-> users[u].organizationId,
          roles |-> [i \in DOMAIN rOrd |-> LoadedRole(rOrd[i], pOrd)]]

\* The orders a load of user u can come back in.
RoleOrders(u) == OrdersOf(RolesOfUser(u))
PermOrders == {f \in [DOMAIN roles -> UNION {OrdersOf(S) : S \in SUBSET PermIds}] :
                   \A r \in DOMAIN roles : Range(f[r]) = PermsOfRole(r)}

----------------------------------------------------------------------------
(* UserAuthService.resolveUserAuthInfo *)

\* permissionSet.add(name) without the membership test of a Set.
SetAddAlways(acc, x) == Append(acc, x)

\* Set.prototype.add: a Set keeps insertion order and ignores a value it has.
SetAdd(acc, x) == IF x \in Range(acc) THEN acc ELSE Append(acc, x)

\* for (const permission of role.permissions) permissionSet.add(permission.name)
RECURSIVE AddPermissions(_, _, _)
AddPermissions(acc, perms, i) ==
    IF i > Len(perms) THEN acc
    ELSE AddPermissions(SetAdd(acc, perms[i].name), perms, i + 1)

\* for (const role of user.roles) ...
RECURSIVE AddRoles(_, _, _)
AddRoles(acc, rs, i) ==
    IF i > Len(rs) THEN acc
    ELSE AddRoles(AddPermissions(acc, rs[i].permissions, 1), rs, i + 1)

\* String.prototype.trim on a character sequence.
RECURSIVE TrimStart(_)
TrimStart(s) == IF s # <<>> /\ Head(s) = " " THEN TrimStart(Tail(s)) ELSE s
RECURSIVE TrimEnd(_)
TrimEnd(s) == IF s # <<>> /\ s[Len(s)] = " " THEN TrimEnd(SubSeq(s, 1, Len(s) - 1)) ELSE s
Trim(s) == TrimEnd(TrimStart(s))

\* resolveUserAuthInfo without its early return: an empty shell for a
\* missing user.
ResolveUserAuthInfoNoNullCheck(user) ==
    IF user = NULL
    THEN [userId |-> "", email |-> <<>>, name |-> <<>>, organizationId |-> NULL,
          roles |-> <<>>, permissions |-> <<>>]
    ELSE [userId |-> user.id,
          email |-> user.email,
          name |-> Trim(user.firstName \o <<" ">> \o user.lastName),
          organizationId |-> user.organizationId,
          roles |-> [i \in DOMAIN user.roles |-> user.roles[i].name],
          permissions |-> AddRoles(<<>>, user.roles, 1)]

\* resolveUserAuthInfo after the awaited findUserWithRoles returned `user`.
ResolveUserAuthInfo(user) ==
    IF user = NULL THEN NULL
    ELSE [userId |-> user.id,
          email |-> user.email,
          name |-> Trim(user.firstName \o <<" ">> \o user.lastName),
          organizationId |-> user.organizationId,
          roles |-> [i \in DOMAIN user.roles |-> user.roles[i].name],
          permissions |-> AddRoles(<<>>, user.roles, 1)]

\* The permission names granted to u by the store as it is now.
GrantedNames(u) == {PermName(p) : p \in UNION {PermsOfRole(r) : r \in RolesOfUser(u)}}

----------------------------------------------------------------------------
(* JavaScript numbers and strings, as far as generateToken uses them *)

\* A JavaScript number: an integer or NaN.
Num(n) == [t |-> "num", v |-> n]
NaN == [t |-> "NaN", v |-> 0]
\* JSON null, what JSON.stringify writes for NaN.
JsonNull == [t |-> "null", v |-> 0]

JsMul(a, b) == IF a.t = "num" /\ b.t = "num" THEN Num(a.v * b.v) ELSE NaN
JsAdd(a, b) == IF a.t = "num" /\ b.t = "num" THEN Num(a.v + b.v) ELSE NaN
\* ToBoolean of a number: 0 and NaN are falsy.
JsTruthy(a) == a.t = "num" /\ a.v # 0
\* a || b
JsOr(a, b) == IF JsTruthy(a) THEN a ELSE b

Digits == {"0", "1", "2", "3", "4", "5", "6", "7", "8", "9"}

DigitVal(c) ==
    CASE c = "0" -> 0 [] c = "1" -> 1 [] c = "2" -> 2 [] c = "3" -> 3 [] c = "4" -> 4
      [] c = "5" -> 5 [] c = "6" -> 6 [] c = "7" -> 7 [] c = "8" -> 8 [] c = "9" -> 9

\* The value of the longest prefix of digits of s, continuing from acc.
RECURSIVE DigitsPrefix(_, _)
DigitsPrefix(s, acc) ==
    IF s # <<>> /\ Head(s) \in Digits
    THEN DigitsPrefix(Tail(s), acc * 10 + DigitVal(Head(s)))
    ELSE acc

\* parseInt(s), radix 10: leading white space, an optional sign, then the
\* longest prefix of digits; NaN when there is no digit.
ParseInt(s) ==
    LET t == TrimStart(s)
        neg == t # <<>> /\ Head(t) = "-"
        u == IF t # <<>> /\ Head(t) \in {"-", "+"} THEN Tail(t) ELSE t
    IN IF u = <<>> \/ Head(u) \notin Digits THEN NaN
       ELSE Num((IF neg THEN -1 ELSE 1) * DigitsPrefix(u, 0))

\* String.prototype.endsWith for a one-character suffix.
EndsWith(s, c) == s # <<>> /\ s[Len(s)] = c

----------------------------------------------------------------------------
(* AuthService.generateToken *)

SecondsPerHour == 3600
SecondsPerMinute == 60
HoursPerDay == 24
DefaultExpirySeconds == 3600

\* The chain with the 'd' branch multiplying like the 'h' branch.
ExpiresInSecondsDayAsHour(expiresIn) ==
    IF EndsWith(expiresIn, "h") THEN JsMul(ParseInt(expiresIn), Num(SecondsPerHour))
    ELSE IF EndsWith(expiresIn, "d") THEN JsMul(ParseInt(expiresIn), Num(SecondsPerHour))
    ELSE IF EndsWith(expiresIn, "m") THEN JsMul(ParseInt(expiresIn), Num(SecondsPerMinute))
    ELSE JsOr(ParseInt(expiresIn), Num(DefaultExpirySeconds))

\* The if / else-if chain that turns config.jwt.expiresIn into seconds.
ExpiresInSeconds(expiresIn) ==
    IF EndsWith(expiresIn, "h") THEN JsMul(ParseInt(expiresIn), Num(SecondsPerHour))
    ELSE IF EndsWith(expiresIn, "d")
         THEN JsMul(JsMul(ParseInt(expiresIn), Num(HoursPerDay)), Num(SecondsPerHour))
    ELSE IF EndsWith(expiresIn, "m") THEN JsMul(ParseInt(expiresIn), Num(SecondsPerMinute))
    ELSE JsOr(ParseInt(expiresIn), Num(DefaultExpirySeconds))

\* The payload with the user's email as its subject.
BuildPayloadSubjectIsEmail(authInfo, nowSeconds) ==
    [sub |-> authInfo.email,
     iss |-> config.issuer,
     aud |-> config.audience,
     iat |-> Num(nowSeconds),
     exp |-> JsAdd(Num(nowSeconds), ExpiresInSeconds(config.expiresIn)),
     nbf |-> Num(nowSeconds),
     org_id |-> authInfo.organizationId,
     roles |-> authInfo.roles,
     permissions |-> authInfo.permissions,
     email |-> authInfo.email,
     name |-> authInfo.name]

\* The payload object literal.
BuildPayload(authInfo, nowSeconds) ==
    [sub |-> authInfo.userId,
     iss |-> config.issuer,
     aud |-> config.audience,
     iat |-> Num(nowSeconds),
     exp |-> JsAdd(Num(nowSeconds), ExpiresInSeconds(config.expiresIn)),
     nbf |-> Num(nowSeconds),
     org_id |-> authInfo.organizationId,
     roles |-> authInfo.roles,
     permissions |-> authInfo.permissions,
     email |-> authInfo.email,
     name |-> authInfo.name]

\* JSON.stringify of a number: NaN is written as null.
JsonNumber(a) == IF a.t = "NaN" THEN JsonNull ELSE a

\* JSON.stringify followed by JSON.parse of the payload: what a verifier
\* reads back from the token's second part.
JsonPayload(payload) ==
    [payload EXCEPT !.iat = JsonNumber(payload.iat),
                    !.exp = JsonNumber(payload.exp),
                    !.nbf = JsonNumber(payload.nbf)]

\* The private key that belongs to a public key.
PrivateKeyOf(publicKey) == IF publicKey = "PUBLIC_PEM" THEN "PRIVATE_PEM" ELSE "NO_KEY"

\* A signature binds the signing key, the algorithm and the signed parts.
Signature(key, alg, header, payload) ==
    [key |-> key, alg |-> alg, header |-> header, payload |-> payload]

\* jwt.sign(payload, privateKey, {algorithm: 'RS256'}): header.payload.signature
JwtSign(payload, privateKey) ==
    LET header == [alg |-> "RS256", typ |-> "JWT"]
        body == JsonPayload(payload)
    IN [header |-> header, payload |-> body,
        signature |-> Signature(privateKey, "RS256", header, body)]

LegacyExpirySeconds == 604800

\* generateToken(userId, email) of the service's earlier revision: the flat
\* payload, signed with the same key, jwt.sign adding iat and exp = iat + 7d.
LegacyJwtSign(u, nowSeconds, privateKey) ==
    LET header == [alg |-> "RS256", typ |-> "JWT"]
        body == [userId |-> u, email |-> Email(u), iat |-> Num(nowSeconds),
                 exp |-> Num(nowSeconds + LegacyExpirySeconds)]
    IN [header |-> header, payload |-> body,
        signature |-> Signature(privateKey, "RS256", header, body)]

\* No call in flight; userId and result are those of the latest call.
GenIdle(u, result) ==
    [pc |-> "idle", userId |-> u, authInfo |-> NULL, readGranted |-> {}, result |-> result]

\* jwt is the returned token; readGranted and authInfo record what the call
\* read from the store and what it built the payload from.
NoCredential == [jwt |-> NULL, readGranted |-> {}, authInfo |-> NULL]

\* generateToken without its private-key test: it resolves the user and
\* goes on to jwt.sign with whatever the configuration holds.
GenerateTokenStartNoKeyCheck(u) ==
    /\ gen.pc = "idle"
    /\ issued' = NoCredential
    /\ \E rOrd \in RoleOrders(u), pOrd \in PermOrders :
          LET authInfo == ResolveUserAuthInfo(FindUserWithRoles(u, rOrd, pOrd))
          IN IF authInfo = NULL
             THEN gen' = GenIdle(u, "User not found")
             ELSE gen' = [pc |-> "resolved", userId |-> u, authInfo |-> authInfo,
                          readGranted |-> GrantedNames(u), result |-> "none"]
    /\ UNCHANGED <<users, roles, userRoles, rolePerms, config, now, req, call, publisher, brokerUp,
                   procs, sys>>

\* generateToken up to the return of the awaited resolveUserAuthInfo: the key
\* check, the store read (in one of the orders the query can return) and the
\* resolution.  readGranted records what the store granted when it was read.
GenerateTokenStart(u) ==
    /\ gen.pc = "idle"
    /\ issued' = NoCredential
    /\ IF config.privateKey = ""
       THEN gen' = GenIdle(u, "JWT private key not configured")
       ELSE \E rOrd \in RoleOrders(u), pOrd \in PermOrders :
              LET authInfo == ResolveUserAuthInfo(FindUserWithRoles(u, rOrd, pOrd))
              IN IF authInfo = NULL
                 THEN gen' = GenIdle(u, "User not found")
                 ELSE gen' = [pc |-> "resolved", userId |-> u, authInfo |-> authInfo,
                              readGranted |-> GrantedNames(u), result |-> "none"]
    /\ UNCHANGED <<users, roles, userRoles, rolePerms, config, now, req, call, publisher, brokerUp,
                   procs, sys>>

\* generateToken from there on: the clock read, the payload and jwt.sign.
GenerateTokenSign ==
    /\ gen.pc = "resolved"
    /\ issued' = [jwt |-> JwtSign(BuildPayload(gen.authInfo, now), config.privateKey),
                  readGranted |-> gen.readGranted, authInfo |-> gen.authInfo]
    /\ gen' = GenIdle(gen.userId, "token")
    /\ UNCHANGED <<users, roles, userRoles, rolePerms, config, now, req, call, publisher, brokerUp,
                   procs, sys>>

----------------------------------------------------------------------------
(* jsonwebtoken's verify, as authenticateToken calls it *)

\* The text after 'Bearer ' that is no header.payload.signature triple.
Garbage == [malformed |-> TRUE]

\* typeof payload[f] !== 'undefined'
HasField(payload, f) == f \in DOMAIN payload

\* Does the third part of the token verify under `key` for the algorithm the
\* header asserts?  RS256 checks against the private key's public half,
\* HS256 recomputes the MAC with `key` as the shared secret.
SignatureVerifies(token, key) ==
    /\ token.signature.alg = token.header.alg
    /\ token.signature.header = token.header
    /\ token.signature.payload = token.payload
    /\ CASE token.header.alg = "RS256" -> token.signature.key = PrivateKeyOf(key)
         [] token.header.alg = "HS256" -> token.signature.key = key
         [] OTHER -> FALSE

\* jwt.verify with ignoreExpiration: the exp claim is not looked at.
JwtVerifyIgnoringExpiration(token, key, algorithms, clock) ==
    LET fail(msg) == [err |-> msg, decoded |-> NULL]
    IN IF token = Garbage THEN fail("jwt malformed")
       ELSE IF token.signature = NULL THEN fail("jwt signature is required")
       ELSE IF token.header.alg \notin algorithms THEN fail("invalid algorithm")
       ELSE IF ~ SignatureVerifies(token, key) THEN fail("invalid signature")
       ELSE IF HasField(token.payload, "nbf") /\ token.payload.nbf.t # "num"
            THEN fail("invalid nbf value")
       ELSE IF HasField(token.payload, "nbf") /\ token.payload.nbf.v > clock
            THEN fail("jwt not active")
       ELSE [err |-> "", decoded |-> token.payload]

\* jwt.verify(token, key, {algorithms}, callback) at clock time `clock`: the
\* error message handed to the callback ("" for none) and the decoded payload.
JwtVerify(token, key, algorithms, clock) ==
    LET fail(msg) == [err |-> msg, decoded |-> NULL]
    IN IF token = Garbage THEN fail("jwt malformed")
       ELSE IF token.signature = NULL THEN fail("jwt signature is required")
       ELSE IF token.header.alg \notin algorithms THEN fail("invalid algorithm")
       ELSE IF ~ SignatureVerifies(token, key) THEN fail("invalid signature")
       ELSE IF HasField(token.payload, "nbf") /\ token.payload.nbf.t # "num"
            THEN fail("invalid nbf value")
       ELSE IF HasField(token.payload, "nbf") /\ token.payload.nbf.v > clock
            THEN fail("jwt not active")
       ELSE IF HasField(token.payload, "exp") /\ token.payload.exp.t # "num"
            THEN fail("invalid exp value")
       ELSE IF HasField(token.payload, "exp") /\ clock >= token.payload.exp.v
            THEN fail("jwt expired")
       ELSE [err |-> "", decoded |-> token.payload]

----------------------------------------------------------------------------
(* The middleware: authenticateToken, requirePermissions *)

\* Every algorithm a token header can assert.
AnyAlgorithm == {"RS256", "HS256", "none"}

\* options.algorithms of the jwt.verify call.
VerifyAlgorithms == {"RS256"}

NoRequest ==
    [pc |-> "none", authorization |-> NULL, chain |-> <<>>, required |-> {}, idx |-> 0,
     user |-> NULL, status |-> 0, message |-> "", error |-> "", responses |-> 0,
     authRan |-> FALSE, authAt |-> 0, verified |-> "no", guard |-> "no",
     guardRan |-> FALSE, handlerRan |-> FALSE,
     genuine |-> FALSE, builtFrom |-> NULL, body |-> NULL]

\* res.status(code).json({message, error}): the response is sent and the
\* chain stops.
Respond(r, code, message, error) ==
    [r EXCEPT !.pc = "done", !.status = code, !.message = message, !.error = error,
              !.responses = r.responses + 1]

\* next(): on to the following middleware.
CallNext(r) == [r EXCEPT !.idx = r.idx + 1]

\* authenticateToken reading the payload with jwt.decode, which checks
\* nothing, and passing every decodable token on.
AuthenticateTokenDecodeOnly(r, clock) ==
    LET ran == [r EXCEPT !.authRan = TRUE, !.authAt = clock]
    IN IF r.authorization = NULL \/ r.authorization.prefix # "Bearer "
       THEN Respond(ran, 401, "Missing or invalid token", "")
       ELSE IF config.publicKey = ""
       THEN Respond(ran, 500, "JWT public key not configured", "")
       ELSE LET v == JwtVerify(r.authorization.token, config.publicKey, VerifyAlgorithms, clock)
            IN IF r.authorization.token = Garbage
               THEN Respond([ran EXCEPT !.verified = "Invalid"], 401, "Invalid token", v.err)
               ELSE CallNext([ran EXCEPT !.user = r.authorization.token.payload,
                                         !.verified = IF v.err # "" THEN "Invalid" ELSE "Valid"])

\* authenticateToken testing only !authHeader: a header without the scheme
\* prefix goes on to substring(7) and jwt.verify, which finds no token in it.
AuthenticateTokenMissingHeaderOnly(r, clock) ==
    LET ran == [r EXCEPT !.authRan = TRUE, !.authAt = clock]
    IN IF r.authorization = NULL
       THEN Respond(ran, 401, "Missing or invalid token", "")
       ELSE IF config.publicKey = ""
       THEN Respond(ran, 500, "JWT public key not configured", "")
       ELSE LET token == IF r.authorization.prefix = "Bearer "
                         THEN r.authorization.token ELSE Garbage
                v == JwtVerify(token, config.publicKey, VerifyAlgorithms, clock)
            IN IF v.err # ""
               THEN Respond([ran EXCEPT !.verified = "Invalid"], 401, "Invalid token", v.err)
               ELSE CallNext([ran EXCEPT !.user = v.decoded, !.verified = "Valid"])

\* authenticateToken(req, res, next) at clock time `clock`.  authRan, authAt
\* and verified record that it ran, when, and what jwt.verify found.
AuthenticateTokenOn(r, clock) ==
    LET ran == [r EXCEPT !.authRan = TRUE, !.authAt = clock]
    IN IF r.authorization = NULL \/ r.authorization.prefix # "Bearer "
       THEN Respond(ran, 401, "Missing or invalid token", "")
       ELSE IF config.publicKey = ""
       THEN Respond(ran, 500, "JWT public key not configured", "")
       ELSE LET v == JwtVerify(r.authorization.token, config.publicKey, VerifyAlgorithms, clock)
            IN IF v.err # ""
               THEN Respond([ran EXCEPT !.verified = "Invalid"], 401, "Invalid token", v.err)
               ELSE CallNext([ran EXCEPT !.user = v.decoded, !.verified = "Valid"])

\* requiredPermissions.some(...) in place of every(...).
HasPermissionAny(required, userPermissions) ==
    \E perm \in required : perm \in Range(userPermissions)

\* requiredPermissions.every(perm => userPermissions.includes(perm))
HasPermission(required, userPermissions) ==
    \A perm \in required : perm \in Range(userPermissions)

\* requirePermissions without its !req.user test.
RequirePermissionsNoUserCheck(r) ==
    LET ran == [r EXCEPT !.guardRan = TRUE]
        userPermissions ==
            IF r.user # NULL /\ HasField(r.user, "permissions") THEN r.user.permissions ELSE <<>>
    IN IF ~ HasPermission(r.required, userPermissions)
       THEN Respond([ran EXCEPT !.guard = "Forbidden"], 403, "Insufficient permissions", "")
       ELSE CallNext([ran EXCEPT !.guard = "Authorized"])

\* requirePermissions looking the subject's permissions up in the store
\* instead of reading them from the attached claims.
RequirePermissionsFromStore(r) ==
    LET ran == [r EXCEPT !.guardRan = TRUE]
    IN IF r.user = NULL
       THEN Respond(ran, 401, "User not authenticated", "")
       ELSE LET granted == IF HasField(r.user, "sub") /\ r.user.sub \in DOMAIN users
                           THEN GrantedNames(r.user.sub) ELSE {}
            IN IF ~ (r.required \subseteq granted)
               THEN Respond([ran EXCEPT !.guard = "Forbidden"], 403, "Insufficient permissions", "")
               ELSE CallNext([ran EXCEPT !.guard = "Authorized"])

\* requirePermissions(required)(req, res, next).  A decoded payload that has
\* no permissions field reads as [].  guardRan and guard record that it ran
\* and what the permission check found.
RequirePermissionsOn(r) ==
    LET ran == [r EXCEPT !.guardRan = TRUE]
    IN IF r.user = NULL
       THEN Respond(ran, 401, "User not authenticated", "")
       ELSE LET userPermissions ==
                    IF HasField(r.user, "permissions") THEN r.user.permissions ELSE <<>>
            IN IF ~ HasPermission(r.required, userPermissions)
               THEN Respond([ran EXCEPT !.guard = "Forbidden"], 403, "Insufficient permissions", "")
               ELSE CallNext([ran EXCEPT !.guard = "Authorized"])

----------------------------------------------------------------------------
(* The Node process and the calls that run in it concurrently *)

\* No concurrent calls.
NoProcs == <<>>

\* The process after startServer: nothing drawn from crypto.randomBytes yet,
\* and for the specifications that follow connections one by one, no
\* connection to the broker opened yet (opened counts them, open holds the
\* ones that are open, handlers the ones with 'error' and 'close' handlers).
StartedProcess == [drawn |-> 0, opened |-> 0, open |-> {}, handlers |-> {}]

----------------------------------------------------------------------------
(* The events collaborator: RabbitMQEventPublisher *)

\* The publisher after startServer's eventPublisher.connect(): connected
\* with a channel if the broker was reachable, and left without a channel
\* (the failure is logged and the server starts all the same) if it was not.
\* published collects the user ids of the 'user.registered' messages handed
\* to the channel, passwordResets the tokens of the
\* 'user.password-change-requested' messages.
StartedPublisher(reachable) ==
    [isConnected |-> reachable, channel |-> reachable, published |-> {},
     passwordResets |-> {}]

\* No call in flight and none returned yet.
NoCall ==
    [kind |-> "none", pc |-> "idle", email |-> <<>>, password |-> "", userId |-> "",
     status |-> 0, message |-> "", token |-> NULL, user |-> "",
     attempt |-> 0, waited |-> 0, pem |-> <<>>, kid |-> <<>>,
     arg |-> NULL, newPassword |-> ""]

MaxRetries == 10

\* The message broker stops or starts accepting connections.
BrokerChanges ==
    /\ brokerUp' = ~ brokerUp
    /\ UNCHANGED <<users, roles, userRoles, rolePerms, config, now, gen, issued, req,
                   call, publisher, procs, sys>>

\* connection.on('close') / on('error'): the handlers connect() installed.
ConnectionClosed ==
    /\ ~ brokerUp
    /\ publisher.isConnected
    /\ publisher' = [publisher EXCEPT !.isConnected = FALSE]
    /\ UNCHANGED <<users, roles, userRoles, rolePerms, config, now, gen, issued, req,
                   call, brokerUp, procs, sys>>

\* The try block of publish(routingKey, payload): channel.publish hands the
\* message over, or throws on a channel whose connection is gone, which is
\* logged and marks the publisher disconnected.
ChannelPublish(pub, userId) ==
    IF brokerUp THEN [pub EXCEPT !.published = pub.published \cup {userId}]
    ELSE [pub EXCEPT !.isConnected = FALSE]

----------------------------------------------------------------------------
(* AuthService: register, login, googleOAuth *)

\* The e-mail addresses and passwords clients send.
Emails == {Email(u) : u \in UserIds}
Passwords == {"pw1", "pw2"}

\* bcrypt.hash and bcrypt.compare.
BcryptHash(password) == [bcrypt |-> password]
BcryptCompare(password, hash) == hash.bcrypt = password

\* What googleAuthService.verifyIdToken finds in an ID token: the Google
\* account g1 with the address of u2, or nothing it accepts.
GoogleIdTokens == {[sub |-> [google |-> "g1"], email |-> Email("u2")], [invalid |-> TRUE]}

\* userRepository.findUserByEmail / findUserByGoogleId: the ids of the rows
\* that match (at most one, both columns being unique).
FindUserByEmail(email) == {u \in DOMAIN users : users[u].email = email}
FindUserByGoogleId(googleId) == {u \in DOMAIN users : users[u].googleId = googleId}

\* The columns of a users row that createUser's caller may leave out, with
\* the values the entity gives them.
UserColumnDefaults ==
    [password |-> NULL, emailVerified |-> FALSE, emailVerificationToken |-> NULL,
     passwordResetToken |-> NULL, passwordResetTokenExpiresAt |-> NULL,
     organizationId |-> NULL, googleId |-> NULL, authProvider |-> "local"]

\* The row userRepository.createUser saves under the generated id u.
NewUserRow(u, userData) ==
    [f \in {"id"} \cup DOMAIN userData \cup DOMAIN UserColumnDefaults |->
        IF f = "id" THEN u
        ELSE IF f \in DOMAIN userData THEN userData[f]
        ELSE UserColumnDefaults[f]]

\* userRepository.updateUser(id, updates): Object.assign on the row found,
\* nothing when there is none.
UpdateUser(id, updates) ==
    IF id \notin DOMAIN users THEN users
    ELSE [users EXCEPT ![id] = [f \in DOMAIN users[id] |->
                                   IF f \in DOMAIN updates THEN updates[f] ELSE users[id][f]]]

\* generateEmailVerificationToken(): crypto.randomBytes(32) in hex, 256 random
\* bits, which differ from one row to the next.
GenerateEmailVerificationToken(u) == [hex |-> "verification", row |-> u]

\* A call has started: what it was given.
StartedCall(kind, email, password) ==
    [NoCall EXCEPT !.kind = kind, !.email = email, !.password = password]

\* The call threw: AppError(message, status), or a plain Error, which the
\* error handler answers with 500.
Thrown(c, status, message) ==
    [c EXCEPT !.pc = "returned", !.status = status, !.message = message]

\* No generateToken call is in flight, and none has been made for the
\* call that is about to make one.
AwaitingGenerateToken ==
    /\ gen' = GenIdle("", "none")
    /\ issued' = NoCredential

\* register without the findUserByEmail test.
RegisterNoDuplicateCheck(email, password) ==
    /\ call.pc \in {"idle", "returned"}
    /\ \E u \in UserIds \ DOMAIN users :
          /\ users' = [v \in DOMAIN users \cup {u} |->
                          IF v = u
                          THEN NewUserRow(u,
                                  [email |-> email, password |-> BcryptHash(password),
                                   firstName |-> <<"A">>, lastName |-> <<"L">>,
                                   emailVerificationToken |->
                                       GenerateEmailVerificationToken(u)])
                          ELSE users[v]]
          /\ call' = [StartedCall("register", email, password) EXCEPT
                         !.pc = "publish", !.userId = u]
    /\ UNCHANGED <<roles, userRoles, rolePerms, config, now, gen, issued, req,
                   publisher, brokerUp, procs, sys>>

\* register(registerDto) up to the saved user: 400 when the address is
\* taken, else the password is hashed and the row created under a fresh id.
Register(email, password) ==
    /\ call.pc \in {"idle", "returned"}
    /\ IF FindUserByEmail(email) # {}
       THEN /\ call' = Thrown(StartedCall("register", email, password), 400,
                              "User with this email already exists")
            /\ UNCHANGED users
       ELSE \E u \in UserIds \ DOMAIN users :
              /\ users' = [v \in DOMAIN users \cup {u} |->
                              IF v = u
                              THEN NewUserRow(u,
                                  [email |-> email, password |-> BcryptHash(password),
                                   firstName |-> <<"A">>, lastName |-> <<"L">>,
                                   emailVerificationToken |->
                                       GenerateEmailVerificationToken(u)])
                              ELSE users[v]]
              /\ call' = [StartedCall("register", email, password) EXCEPT
                             !.pc = "publish", !.userId = u]
    /\ UNCHANGED <<roles, userRoles, rolePerms, config, now, gen, issued, req,
                   publisher, brokerUp, procs, sys>>

\* await userEventsPublisher.onUserRegistered(user), first step: publish()
\* hands the message to the channel if the publisher has one and is
\* connected, and awaits connect() otherwise.
PublishUserRegistered ==
    /\ call.pc = "publish"
    /\ IF publisher.channel /\ publisher.isConnected
       THEN /\ publisher' = ChannelPublish(publisher, call.userId)
            /\ call' = [call EXCEPT !.pc = "generate"]
            /\ AwaitingGenerateToken
       ELSE /\ call' = [call EXCEPT !.pc = "connecting", !.attempt = 0]
            /\ UNCHANGED <<publisher, gen, issued>>
    /\ UNCHANGED <<users, roles, userRoles, rolePerms, config, now, req, brokerUp,
                   procs, sys>>

\* One turn of connect()'s retry loop, awaited by publish(): the connection
\* is made and the message published; or the attempt fails and the loop
\* sleeps for its backoff delay; or the last attempt fails, connect() throws,
\* publish() logs it and returns without publishing.
ConnectAttempt ==
    /\ call.pc = "connecting"
    /\ IF brokerUp
       THEN /\ publisher' = ChannelPublish(
                   [publisher EXCEPT !.isConnected = TRUE, !.channel = TRUE], call.userId)
            /\ call' = [call EXCEPT !.pc = "generate", !.attempt = call.attempt + 1]
            /\ AwaitingGenerateToken
       ELSE IF call.attempt = MaxRetries - 1
       THEN /\ call' = [call EXCEPT !.pc = "generate", !.attempt = call.attempt + 1]
            /\ AwaitingGenerateToken
            /\ UNCHANGED publisher
       ELSE /\ call' = [call EXCEPT !.attempt = call.attempt + 1, !.waited = call.waited + 1]
            /\ UNCHANGED <<publisher, gen, issued>>
    /\ UNCHANGED <<users, roles, userRoles, rolePerms, config, now, req, brokerUp,
                   procs, sys>>

\* await this.generateToken(user.id): the call made by register, login and
\* googleOAuth.
CallGenerateToken ==
    /\ call.pc = "generate"
    /\ gen = GenIdle("", "none")
    /\ GenerateTokenStart(call.userId)

\* The HTTP status of a successful answer: 201 for register, 200 otherwise.
SuccessStatus(kind) == IF kind = "register" THEN 201 ELSE 200

\* generateToken has returned or thrown: the call returns {user, token}, or
\* the Error propagates (a plain Error is answered with 500).
ReturnFromCall ==
    /\ call.pc = "generate"
    /\ gen.pc = "idle"
    /\ gen.result # "none"
    /\ IF gen.result = "token"
       THEN call' = [call EXCEPT !.pc = "returned", !.status = SuccessStatus(call.kind),
                                 !.token = issued.jwt, !.user = call.userId]
       ELSE call' = Thrown(call, 500, gen.result)
    /\ UNCHANGED <<users, roles, userRoles, rolePerms, config, now, gen, issued, req,
                   publisher, brokerUp, procs, sys>>

\* login accepting any password for a stored address.
LoginNoPasswordCheck(email, password) ==
    /\ call.pc \in {"idle", "returned"}
    /\ IF FindUserByEmail(email) = {}
       THEN /\ call' = Thrown(StartedCall("login", email, password), 401, "Invalid credentials")
            /\ UNCHANGED <<gen, issued>>
       ELSE /\ call' = [StartedCall("login", email, password) EXCEPT
                           !.pc = "generate",
                           !.userId = CHOOSE u \in FindUserByEmail(email) : TRUE]
            /\ AwaitingGenerateToken
    /\ UNCHANGED <<users, roles, userRoles, rolePerms, config, now, req, publisher, brokerUp,
                   procs, sys>>

\* login(loginDto) up to its generateToken call: 401 'Invalid credentials'
\* for an address that is not stored, for a row without a password and for a
\* password bcrypt.compare rejects.
Login(email, password) ==
    /\ call.pc \in {"idle", "returned"}
    /\ LET found == FindUserByEmail(email)
           user == users[CHOOSE u \in found : TRUE]
       IN IF found = {}
          THEN /\ call' = Thrown(StartedCall("login", email, password), 401,
                                 "Invalid credentials")
               /\ UNCHANGED <<gen, issued>>
          ELSE IF user.password = NULL
          THEN /\ call' = Thrown(StartedCall("login", email, password), 401,
                                 "Invalid credentials")
               /\ UNCHANGED <<gen, issued>>
          ELSE IF ~ BcryptCompare(password, user.password)
          THEN /\ call' = Thrown(StartedCall("login", email, password), 401,
                                 "Invalid credentials")
               /\ UNCHANGED <<gen, issued>>
          ELSE /\ call' = [StartedCall("login", email, password) EXCEPT
                              !.pc = "generate", !.userId = user.id]
               /\ AwaitingGenerateToken
    /\ UNCHANGED <<users, roles, userRoles, rolePerms, config, now, req, publisher, brokerUp,
                   procs, sys>>

\* googleOAuth(googleOAuthDto) up to its generateToken or publish call: the
\* ID token is verified; a row with the Google id logs in; a row with the
\* address is linked to the Google id by updateUser; otherwise a row without
\* a password is created.
GoogleOAuth(idToken) ==
    /\ call.pc \in {"idle", "returned"}
    /\ IF "invalid" \in DOMAIN idToken
       THEN /\ call' = Thrown(StartedCall("googleOAuth", <<>>, ""), 401, "Invalid Google ID token")
            /\ UNCHANGED <<users, gen, issued>>
       ELSE LET started == StartedCall("googleOAuth", idToken.email, "")
                byGoogleId == FindUserByGoogleId(idToken.sub)
                byEmail == FindUserByEmail(idToken.email)
            IN IF byGoogleId # {}
               THEN /\ call' = [started EXCEPT !.pc = "generate",
                                               !.userId = CHOOSE u \in byGoogleId : TRUE]
                    /\ AwaitingGenerateToken
                    /\ UNCHANGED users
               ELSE IF byEmail # {}
               THEN LET u == CHOOSE v \in byEmail : TRUE
                    IN /\ users' = UpdateUser(u,
                                      [googleId |-> idToken.sub,
                                       authProvider |->
                                           IF users[u].authProvider = "local"
                                           THEN "local" ELSE "google",
                                       emailVerified |-> TRUE])
                       /\ call' = [started EXCEPT !.pc = "generate", !.userId = u]
                       /\ AwaitingGenerateToken
               ELSE /\ \E u \in UserIds \ DOMAIN users :
                          /\ users' = [v \in DOMAIN users \cup {u} |->
                                          IF v = u
                                          THEN NewUserRow(u,
                                                  [email |-> idToken.email, password |-> NULL,
                                                   firstName |-> <<>>, lastName |-> <<>>,
                                                   googleId |-> idToken.sub,
                                                   authProvider |-> "google",
                                                   emailVerified |-> TRUE])
                                          ELSE users[v]]
                          /\ call' = [started EXCEPT !.pc = "publish", !.userId = u]
                    /\ UNCHANGED <<gen, issued>>
    /\ UNCHANGED <<roles, userRoles, rolePerms, config, now, req, publisher, brokerUp,
                   procs, sys>>

----------------------------------------------------------------------------
(* AuthService: verifyEmail, requestPasswordReset, resetPassword,
   changePassword *)

\* The call returned {success: true, message}.
Returned(c, message, u) ==
    [c EXCEPT !.pc = "returned", !.status = 200, !.message = message, !.userId = u]

\* userRepository.findUserByVerificationToken / findUserByPasswordResetToken
FindUserByVerificationToken(token) ==
    {u \in DOMAIN users : users[u].emailVerificationToken = token}
FindUserByPasswordResetToken(token) ==
    {u \in DOMAIN users : users[u].passwordResetToken = token}

\* verifyEmail(token)
VerifyEmail(token) ==
    /\ call.pc \in {"idle", "returned"}
    /\ LET started == [StartedCall("verifyEmail", <<>>, "") EXCEPT !.arg = token]
           found == FindUserByVerificationToken(token)
       IN IF found = {}
          THEN /\ call' = Thrown(started, 400, "Invalid verification token")
               /\ UNCHANGED users
          ELSE \E u \in found :
                 IF users[u].emailVerified
                 THEN /\ call' = Returned(started, "Email already verified", u)
                      /\ UNCHANGED users
                 ELSE /\ users' = UpdateUser(u, [emailVerified |-> TRUE,
                                                 emailVerificationToken |-> NULL])
                      /\ call' = Returned(started, "Email verified successfully", u)
    /\ UNCHANGED <<roles, userRoles, rolePerms, config, now, gen, issued, req,
                   publisher, brokerUp, procs, sys>>

PasswordResetTokenExpiryHours == 1

MaxDrawn == 2

\* generatePasswordResetToken(): crypto.randomBytes(32) in hex, 256 random
\* bits, which differ from one draw to the next.
GeneratePasswordResetToken == [hex |-> "reset", draw |-> sys.drawn]

\* requestPasswordReset(requestPasswordResetDto): the same answer whether or
\* not the address is stored; for a stored one a token and its expiry are
\* saved and the 'user.password-change-requested' message is published.
RequestPasswordReset(email) ==
    /\ call.pc \in {"idle", "returned"}
    /\ LET started == StartedCall("requestPasswordReset", email, "")
           found == FindUserByEmail(email)
           sent == "If the email exists, a password reset link has been sent"
       IN IF found = {}
          THEN /\ call' = Returned(started, sent, "")
               /\ UNCHANGED <<users, publisher, sys>>
          ELSE /\ sys.drawn < MaxDrawn
               /\ \E u \in found :
                     /\ users' = UpdateUser(u,
                            [passwordResetToken |-> GeneratePasswordResetToken,
                             passwordResetTokenExpiresAt |->
                                 [time |-> now + PasswordResetTokenExpiryHours * SecondsPerHour]])
                     /\ call' = Returned(started, sent, u)
               /\ sys' = [sys EXCEPT !.drawn = sys.drawn + 1]
               /\ publisher' =
                     IF publisher.channel /\ publisher.isConnected /\ brokerUp
                     THEN [publisher EXCEPT !.passwordResets =
                              publisher.passwordResets \cup {GeneratePasswordResetToken}]
                     ELSE publisher
    /\ UNCHANGED <<roles, userRoles, rolePerms, config, now, gen, issued, req,
                   brokerUp, procs>>

\* resetPassword that does not look at the expiry.
ResetPasswordIgnoringExpiry(token, newPassword) ==
    /\ call.pc \in {"idle", "returned"}
    /\ LET started == [StartedCall("resetPassword", <<>>, "") EXCEPT
                          !.arg = token, !.newPassword = newPassword]
           found == FindUserByPasswordResetToken(token)
           invalid == "Invalid or expired password reset token"
       IN IF found = {}
          THEN /\ call' = Thrown(started, 400, invalid)
               /\ UNCHANGED users
          ELSE \E u \in found :
                 /\ users' = UpdateUser(u, [password |-> BcryptHash(newPassword),
                                            passwordResetToken |-> NULL,
                                            passwordResetTokenExpiresAt |-> NULL])
                 /\ call' = Returned(started, "Password has been reset successfully", u)
    /\ UNCHANGED <<roles, userRoles, rolePerms, config, now, gen, issued, req,
                   publisher, brokerUp, procs, sys>>

\* resetPassword(resetPasswordDto)
ResetPassword(token, newPassword) ==
    /\ call.pc \in {"idle", "returned"}
    /\ LET started == [StartedCall("resetPassword", <<>>, "") EXCEPT
                          !.arg = token, !.newPassword = newPassword]
           found == FindUserByPasswordResetToken(token)
           invalid == "Invalid or expired password reset token"
       IN IF found = {}
          THEN /\ call' = Thrown(started, 400, invalid)
               /\ UNCHANGED users
          ELSE \E u \in found :
                 IF users[u].passwordResetTokenExpiresAt = NULL
                 THEN /\ call' = Thrown(started, 400, invalid)
                      /\ UNCHANGED users
                 ELSE IF now > users[u].passwordResetTokenExpiresAt.time
                 THEN /\ call' = Thrown(started, 400, invalid)
                      /\ UNCHANGED users
                 ELSE /\ users' = UpdateUser(u, [password |-> BcryptHash(newPassword),
                                                 passwordResetToken |-> NULL,
                                                 passwordResetTokenExpiresAt |-> NULL])
                      /\ call' = Returned(started, "Password has been reset successfully", u)
    /\ UNCHANGED <<roles, userRoles, rolePerms, config, now, gen, issued, req,
                   publisher, brokerUp, procs, sys>>

\* changePassword that does not compare the current password.
ChangePasswordNoCompare(userId, currentPassword, newPassword) ==
    /\ call.pc \in {"idle", "returned"}
    /\ LET started == [StartedCall("changePassword", <<>>, currentPassword) EXCEPT
                          !.userId = userId, !.newPassword = newPassword]
       IN IF userId \notin DOMAIN users
          THEN /\ call' = Thrown(started, 404, "User not found")
               /\ UNCHANGED users
          ELSE IF users[userId].password = NULL
          THEN /\ call' = Thrown(started, 400, "Cannot change password for OAuth-only account")
               /\ UNCHANGED users
          ELSE /\ users' = UpdateUser(userId, [password |-> BcryptHash(newPassword)])
               /\ call' = Returned(started, "Password has been changed successfully", userId)
    /\ UNCHANGED <<roles, userRoles, rolePerms, config, now, gen, issued, req,
                   publisher, brokerUp, procs, sys>>

\* changePassword(userId, changePasswordDto)
ChangePassword(userId, currentPassword, newPassword) ==
    /\ call.pc \in {"idle", "returned"}
    /\ LET started == [StartedCall("changePassword", <<>>, currentPassword) EXCEPT
                          !.userId = userId, !.newPassword = newPassword]
       IN IF userId \notin DOMAIN users
          THEN /\ call' = Thrown(started, 404, "User not found")
               /\ UNCHANGED users
          ELSE IF users[userId].password = NULL
          THEN /\ call' = Thrown(started, 400, "Cannot change password for OAuth-only account")
               /\ UNCHANGED users
          ELSE IF ~ BcryptCompare(currentPassword, users[userId].password)
          THEN /\ call' = Thrown(started, 401, "Current password is incorrect")
               /\ UNCHANGED users
          ELSE /\ users' = UpdateUser(userId, [password |-> BcryptHash(newPassword)])
               /\ call' = Returned(started, "Password has been changed successfully", userId)
    /\ UNCHANGED <<roles, userRoles, rolePerms, config, now, gen, issued, req,
                   publisher, brokerUp, procs, sys>>

----------------------------------------------------------------------------
(* Configuration *)

DefaultExpiresIn == <<"1", "h">>

\* config.jwt as loadJwtKeys and the environment leave it: both keys or
\* neither, and the lifetime string.
JwtConfig(keys, expiresIn) ==
    [privateKey |-> IF keys THEN "PRIVATE_PEM" ELSE "",
     publicKey |-> IF keys THEN "PUBLIC_PEM" ELSE "",
     expiresIn |-> IF expiresIn = <<>> THEN DefaultExpiresIn ELSE expiresIn,
     issuer |-> "http://localhost:3000",
     audience |-> "backboard"]


----------------------------------------------------------------------------
(* Spec: the store's operations interleaved with token issuance *)

Init ==
    /\ users = <<>>
    /\ roles = <<>>
    /\ userRoles = {}
    /\ rolePerms = {}
    /\ config \in {JwtConfig(k, <<>>) : k \in BOOLEAN}
    /\ now = 0
    /\ gen = GenIdle("", "none")
    /\ issued = NoCredential
    /\ req = NoRequest
    /\ call = NoCall
    /\ publisher = StartedPublisher(TRUE)
    /\ brokerUp = TRUE
    /\ procs = NoProcs
    /\ sys = StartedProcess

Next ==
    \/ \E u \in UserIds : CreateUser(u)
    \/ \E r \in RoleIds : CreateRole(r, RoleNameOf(r))
    \/ \E r \in RoleIds : DeleteRole(r)
    \/ \E r \in RoleIds, p \in GrantablePermIds : AddPermissionToRole(r, p)
    \/ \E r \in RoleIds, p \in GrantablePermIds : RemovePermissionFromRole(r, p)
    \/ \E u \in UserIds, r \in RoleIds : AddRoleToUser(u, r)
    \/ \E u \in UserIds, r \in RoleIds : RemoveRoleFromUser(u, r)
    \/ \E u \in UserIds : GenerateTokenStart(u)
    \/ GenerateTokenSign

Spec == Init /\ [][Next]_vars

----------------------------------------------------------------------------
(* Claims about the role resolver and token issuance, checked under Spec *)

\* C1: for every stored user and every order in which its roles and their
\* permissions are loaded, the resolved permissions are, as a set, the union
\* of the permission names of the user's roles, and no name occurs twice.
C1_ResolvedPermissionsAreUnion ==
    \A u \in DOMAIN users : \A rOrd \in RoleOrders(u), pOrd \in PermOrders :
        LET info == ResolveUserAuthInfo(FindUserWithRoles(u, rOrd, pOrd))
        IN /\ Range(info.permissions) = GrantedNames(u)
           /\ NoDuplicates(info.permissions)

\* C1 witness: a resolution has run for a user holding two roles that share
\* a permission, one of which grants a further one.
C1_Witness ==
    /\ gen.pc = "resolved"
    /\ Len(gen.authInfo.roles) = 2
    /\ \E r, q \in RolesOfUser(gen.userId) :
          /\ r # q
          /\ PermsOfRole(r) \cap PermsOfRole(q) # {}
          /\ PermsOfRole(r) # PermsOfRole(q)
    /\ Range(gen.authInfo.permissions) = GrantedNames(gen.userId)
    /\ Len(gen.authInfo.permissions) = 2

\* C2: every permission name in an issued credential was granted by a role
\* assigned to its subject in the store state that generateToken read,
\* whatever the store's operations did between the read and the signing.
C2_IssuedPermissionsTraceable ==
    issued.jwt # NULL => Range(issued.jwt.payload.permissions) \subseteq issued.readGranted

\* C2 witness: a credential carrying a permission was issued and the store
\* no longer grants its subject that permission.
C2_Witness ==
    /\ issued.jwt # NULL
    /\ issued.jwt.payload.permissions # <<>>
    /\ Range(issued.jwt.payload.permissions) \subseteq issued.readGranted
    /\ ~ (Range(issued.jwt.payload.permissions) \subseteq GrantedNames(issued.jwt.payload.sub))

\* C9: resolution of an id that is not stored is null under every load
\* order, a call of generateToken for such an id has ended with an error
\* and returned nothing, and the subject of an issued credential is stored.
C9_NoCredentialForUnknownUser ==
    /\ \A u \in UserIds \ DOMAIN users : \A rOrd \in RoleOrders(u), pOrd \in PermOrders :
          ResolveUserAuthInfo(FindUserWithRoles(u, rOrd, pOrd)) = NULL
    /\ (gen.userId \in UserIds \ DOMAIN users) =>
          /\ gen.pc = "idle"
          /\ gen.result \in {"User not found", "JWT private key not configured"}
          /\ issued = NoCredential
    /\ issued.jwt # NULL => issued.jwt.payload.sub \in DOMAIN users

\* C9 witness: with the private key configured, generateToken was called for
\* an id that is not stored and threw 'User not found'.
C9_Witness ==
    /\ config.privateKey # ""
    /\ gen.userId \in UserIds \ DOMAIN users
    /\ gen.result = "User not found"
    /\ issued = NoCredential

----------------------------------------------------------------------------
(* SpecLifetime: token issuance over the lifetime strings the environment
   can configure, against a store that does not change *)

MaxLifetimeLen == 3
MaxTime == 2

LifetimeChars == {"0", "3", "h", "d", "m", "-", "s"}

\* JWT_EXPIRES_IN: every string of at most MaxLifetimeLen characters (the
\* empty string stands for the variable being unset).
LifetimeStrings == UNION {[1..n -> LifetimeChars] : n \in 0..MaxLifetimeLen}

\* A store that Spec's operations build: both users registered, org_admin
\* granting users:read and users:manage, analyst granting projects:read,
\* u1 holding both roles and u2 holding analyst.
PopulatedStore ==
    /\ users = [u \in UserIds |-> CreateUserRow(u)]
    /\ roles = [r \in RoleIds |-> [id |-> r, name |-> RoleNameOf(r)]]
    /\ rolePerms = {<<"r1", "p1">>, <<"r1", "p2">>, <<"r2", "p3">>}
    /\ userRoles = {<<"u1", "r1">>, <<"u1", "r2">>, <<"u2", "r2">>}

\* The clock advances.
Tick ==
    /\ now < MaxTime
    /\ now' = now + 1
    /\ UNCHANGED <<users, roles, userRoles, rolePerms, config, gen, issued, req, call, publisher, brokerUp,
                   procs, sys>>

InitLifetime ==
    /\ PopulatedStore
    /\ config \in {JwtConfig(TRUE, s) : s \in LifetimeStrings}
    /\ now = 0
    /\ gen = GenIdle("", "none")
    /\ issued = NoCredential
    /\ req = NoRequest
    /\ call = NoCall
    /\ publisher = StartedPublisher(TRUE)
    /\ brokerUp = TRUE
    /\ procs = NoProcs
    /\ sys = StartedProcess

NextLifetime ==
    \/ \E u \in UserIds : GenerateTokenStart(u)
    \/ GenerateTokenSign
    \/ Tick

SpecLifetime == InitLifetime /\ [][NextLifetime]_vars

\* The lifetime strings the documentation describes: decimal digits,
\* followed by at most one of the units h, d, m.
DigitString(s) == s # <<>> /\ \A i \in DOMAIN s : s[i] \in Digits
UnitOf(s) == IF s # <<>> /\ s[Len(s)] \in {"h", "d", "m"} THEN s[Len(s)] ELSE ""
DigitsOf(s) == IF UnitOf(s) = "" THEN s ELSE SubSeq(s, 1, Len(s) - 1)
DocumentedLifetime(s) == DigitString(DigitsOf(s))

\* The decimal value of a digit string, from its last digit.
RECURSIVE DecimalValue(_)
DecimalValue(s) ==
    IF s = <<>> THEN 0 ELSE 10 * DecimalValue(SubSeq(s, 1, Len(s) - 1)) + DigitVal(s[Len(s)])

\* n*3600 for 'nh', n*86400 for 'nd', n*60 for 'nm', n for a bare n.
DocumentedSeconds(s) ==
    LET n == DecimalValue(DigitsOf(s))
    IN CASE UnitOf(s) = "h" -> n * 3600
         [] UnitOf(s) = "d" -> n * 86400
         [] UnitOf(s) = "m" -> n * 60
         [] OTHER -> n

\* C10 as claimed: every issued credential has nbf = iat, and exp = iat + the
\* documented number of seconds for every documented lifetime string.
C10_ExpiryIsIssuedAtPlusLifetime ==
    issued.jwt # NULL =>
        /\ issued.jwt.payload.nbf = issued.jwt.payload.iat
        /\ DocumentedLifetime(config.expiresIn) =>
              issued.jwt.payload.exp =
                  Num(issued.jwt.payload.iat.v + DocumentedSeconds(config.expiresIn))

\* C10 as amended: the same, except that a bare integer 0 gives the default
\* of 3600 seconds.
C10_ExpiryIsIssuedAtPlusLifetimeOrDefault ==
    issued.jwt # NULL =>
        /\ issued.jwt.payload.nbf = issued.jwt.payload.iat
        /\ issued.jwt.payload.iat.t = "num"
        /\ DocumentedLifetime(config.expiresIn) =>
              issued.jwt.payload.exp =
                  Num(issued.jwt.payload.iat.v +
                      (IF UnitOf(config.expiresIn) = "" /\ DocumentedSeconds(config.expiresIn) = 0
                       THEN 3600
                       ELSE DocumentedSeconds(config.expiresIn)))

\* C10 witness: a credential issued after the clock advanced, under a
\* lifetime of 3 days, expires 259200 seconds after it was issued.
C10_Witness ==
    /\ issued.jwt # NULL
    /\ config.expiresIn = <<"3", "d">>
    /\ issued.jwt.payload.iat = Num(now)
    /\ now > 0
    /\ issued.jwt.payload.exp = Num(now + 259200)

\* C11: a lifetime string that is not one of the documented forms falls back
\* to the one-hour default (exp = iat + 3600), and every issued credential
\* has a defined, positive lifetime: exp is a number greater than iat.
C11_UnparseableLifetimeFallsBack ==
    issued.jwt # NULL =>
        /\ ~ DocumentedLifetime(config.expiresIn) =>
              issued.jwt.payload.exp = Num(issued.jwt.payload.iat.v + DefaultExpirySeconds)
        /\ issued.jwt.payload.exp.t = "num"
        /\ issued.jwt.payload.exp.v > issued.jwt.payload.iat.v

----------------------------------------------------------------------------
(* SpecGuard: requests through the middleware chain, carrying issued and
   forged credentials, while tokens are issued and the clock advances *)

\* The middleware stacks: GET /api/users/me, a permission-guarded route, and
\* a stack mounted without authenticateToken in front of the guard.
MeRoute == <<"authenticateToken", "handler">>
GuardedRoute == <<"authenticateToken", "requirePermissions", "handler">>
MisorderedRoute == <<"requirePermissions", "handler">>

\* The requirePermissions([...]) argument of a route.
RequiredSets == {{}, {"users:read"}, {"projects:read", "users:read"}}

Routes ==
    {[chain |-> MeRoute, required |-> {}]}
    \cup {[chain |-> c, required |-> R] : c \in {GuardedRoute, MisorderedRoute}, R \in RequiredSets}

\* Tokens a client still holds from the service's earlier revision: one
\* signed when the clock read 0, and one signed long enough before that to
\* have expired.
LegacyToken == LegacyJwtSign("u1", 0, "PRIVATE_PEM")
StaleLegacyToken == LegacyJwtSign("u1", (-1) - LegacyExpirySeconds, "PRIVATE_PEM")

EveryPermission == <<"users:read", "users:manage", "projects:read">>

\* The payload rewritten to claim every permission.
Escalated(payload) ==
    IF HasField(payload, "permissions") THEN [payload EXCEPT !.permissions = EveryPermission]
    ELSE [p \in DOMAIN payload \cup {"permissions"} |->
             IF p = "permissions" THEN EveryPermission ELSE payload[p]]

\* What somebody who holds token t and the public key can build without the
\* private key: the payload rewritten under the old signature, an HS256 MAC
\* keyed with the public key, an unsigned 'none' token, an RS256 signature
\* by a key pair of their own.
Forgeries(t) ==
    LET body == Escalated(t.payload)
        hs == [alg |-> "HS256", typ |-> "JWT"]
        none == [alg |-> "none", typ |-> "JWT"]
    IN {[t EXCEPT !.payload = body],
        [header |-> hs, payload |-> body,
         signature |-> Signature("PUBLIC_PEM", "HS256", hs, body)],
        [header |-> none, payload |-> body, signature |-> NULL],
        [header |-> t.header, payload |-> body,
         signature |-> Signature("ATTACKER_PEM", "RS256", t.header, body)]}

\* The credentials a client can present now.
Presentable ==
    LET held == {LegacyToken} \cup (IF issued.jwt = NULL THEN {} ELSE {issued.jwt})
    IN {Garbage, StaleLegacyToken} \cup held \cup UNION {Forgeries(t) : t \in held}

\* The Authorization headers a client can send now: none, a credential
\* without the scheme prefix, 'Bearer ' and a credential.
Authorizations ==
    {NULL}
    \cup {[prefix |-> "", token |-> LegacyToken]}
    \cup {[prefix |-> "Bearer ", token |-> c] : c \in Presentable}

\* A request arrives.
ReceiveRequest(authorization, route) ==
    /\ req.pc \in {"none", "done"}
    /\ req' = [NoRequest EXCEPT
                 !.pc = "running", !.authorization = authorization,
                 !.chain = route.chain, !.required = route.required, !.idx = 1,
                 !.genuine = (authorization # NULL /\ issued.jwt # NULL
                              /\ authorization.token = issued.jwt),
                 !.builtFrom = IF authorization # NULL /\ issued.jwt # NULL
                                  /\ authorization.token = issued.jwt
                               THEN issued.authInfo ELSE NULL]
    /\ UNCHANGED <<users, roles, userRoles, rolePerms, config, now, gen, issued, call, publisher, brokerUp,
                   procs, sys>>

Current(r) == IF r.pc = "running" THEN r.chain[r.idx] ELSE ""

AuthenticateToken ==
    /\ Current(req) = "authenticateToken"
    /\ req' = AuthenticateTokenOn(req, now)
    /\ UNCHANGED <<users, roles, userRoles, rolePerms, config, now, gen, issued, call, publisher, brokerUp,
                   procs, sys>>

RequirePermissions ==
    /\ Current(req) = "requirePermissions"
    /\ req' = RequirePermissionsOn(req)
    /\ UNCHANGED <<users, roles, userRoles, rolePerms, config, now, gen, issued, call, publisher, brokerUp,
                   procs, sys>>

\* The route handler is reached.
Handler ==
    /\ Current(req) = "handler"
    /\ req' = [req EXCEPT !.pc = "done", !.handlerRan = TRUE]
    /\ UNCHANGED <<users, roles, userRoles, rolePerms, config, now, gen, issued, call, publisher, brokerUp,
                   procs, sys>>

\* req.user.userId: the values the property read gives; none when the
\* attached claims have no userId (the read gives undefined).
RequestedUserId(user) == IF HasField(user, "userId") THEN {user.userId} ELSE {}

\* userRepository.findUserById(id), a findOne({ where: { id } }): the row
\* with that id, or null.  With an undefined id the where clause has no
\* condition and the query returns whichever stored row comes first.
FindUserById(ids) ==
    IF ids = {}
    THEN IF DOMAIN users = {} THEN {NULL} ELSE {users[u] : u \in DOMAIN users}
    ELSE {IF id \in DOMAIN users THEN users[id] ELSE NULL : id \in ids}

\* mapToUserResponse(user), as far as it identifies the user.
MapToUserResponse(row) == [id |-> row.id, email |-> row.email]

\* getCurrentUser(req, res, next) as the handler of GET /api/users/me.
GetCurrentUser ==
    /\ Current(req) = "handler"
    /\ LET ran == [req EXCEPT !.handlerRan = TRUE]
       IN IF req.user = NULL
          THEN req' = Respond(ran, 401, "User not authenticated", "")
          ELSE \E row \in FindUserById(RequestedUserId(req.user)) :
                  IF row = NULL
                  THEN req' = Respond(ran, 404, "User not found. Please contact support.", "")
                  ELSE req' = [Respond(ran, 200, "", "") EXCEPT !.body = MapToUserResponse(row)]
    /\ UNCHANGED <<users, roles, userRoles, rolePerms, config, now, gen, issued,
                   call, publisher, brokerUp, procs, sys>>

\* A lifetime of one second, and one that parseInt cannot read.
GuardLifetimes == {<<"1">>, <<"h">>}

InitGuard ==
    /\ PopulatedStore
    /\ config \in {JwtConfig(k, s) : k \in BOOLEAN, s \in GuardLifetimes}
    /\ now = 0
    /\ gen = GenIdle("", "none")
    /\ issued = NoCredential
    /\ req = NoRequest
    /\ call = NoCall
    /\ publisher = StartedPublisher(TRUE)
    /\ brokerUp = TRUE
    /\ procs = NoProcs
    /\ sys = StartedProcess

NextGuard ==
    \/ \E u \in UserIds : GenerateTokenStart(u)
    \/ GenerateTokenSign
    \/ Tick
    \/ \E a \in Authorizations, route \in Routes : ReceiveRequest(a, route)
    \/ AuthenticateToken
    \/ RequirePermissions
    \/ Handler

SpecGuard == InitGuard /\ [][NextGuard]_vars

----------------------------------------------------------------------------
(* Claims about the middleware, checked under SpecGuard *)

\* The permissions a request's attached claims hold: those of the
\* permissions claim, none when the claim is absent.
HeldPermissions(r) ==
    IF r.user # NULL /\ HasField(r.user, "permissions") THEN Range(r.user.permissions) ELSE {}

\* The request carries 'Bearer ' and a three-part token.
CarriesToken(r) ==
    /\ r.authorization # NULL
    /\ r.authorization.prefix = "Bearer "
    /\ r.authorization.token # Garbage

\* C3: when requirePermissions(R) has checked a request with attached
\* claims, it passed the request on exactly if every permission of R is
\* among the claims' permissions (none when the claim is absent), and it
\* answered 403 otherwise; R = {projects:read, users:read} against
\* {projects:read} is forbidden and against all three is authorized.
C3_RequireAllPermissions ==
    (req.guardRan /\ req.user # NULL) =>
        /\ req.guard = "Authorized" <=> req.required \subseteq HeldPermissions(req)
        /\ req.guard = "Forbidden" <=> ~ (req.required \subseteq HeldPermissions(req))
        /\ req.guard = "Forbidden" => req.status = 403 /\ req.pc = "done" /\ ~ req.handlerRan
        /\ req.guard = "Authorized" => req.status # 403
        /\ (req.required = {"projects:read", "users:read"}
            /\ HeldPermissions(req) = {"projects:read"}) => req.status = 403
        /\ (req.required = {"projects:read", "users:read"}
            /\ HeldPermissions(req) = {"projects:read", "users:read", "users:manage"})
               => req.guard = "Authorized"

\* C3 witness: a verified credential holding one of two required
\* permissions was answered 403.
C3_Witness ==
    /\ req.guardRan
    /\ req.verified = "Valid"
    /\ req.required = {"projects:read", "users:read"}
    /\ HeldPermissions(req) = {"projects:read"}
    /\ req.status = 403

\* The per-request state machine on a permission-guarded route: claims are
\* attached only on Valid, the guard checks only after Valid, the handler
\* runs only after Valid and Authorized, and at most one response is sent.
GuardedRouteOrder(r) ==
    /\ r.user # NULL => r.verified = "Valid"
    /\ r.guard # "no" => r.verified = "Valid"
    /\ r.handlerRan => r.verified = "Valid" /\ r.guard = "Authorized"
    /\ r.responses <= 1
    /\ r.handlerRan => r.responses = 0

\* C4 as claimed: on a guarded route the state machine is respected and a
\* finished request ended in exactly one of 401, 403 and handler reached.
C4_GuardedRequestOutcome ==
    req.chain = GuardedRoute =>
        /\ GuardedRouteOrder(req)
        /\ req.pc = "done" =>
              \/ req.status = 401 /\ ~ req.handlerRan
              \/ req.status = 403 /\ ~ req.handlerRan
              \/ req.status = 0 /\ req.handlerRan

\* C4 as amended: the same, with a fourth outcome: 500 'JWT public key not
\* configured', sent before verification when no public key is configured.
C4_GuardedRequestOutcomeOrConfigError ==
    req.chain = GuardedRoute =>
        /\ GuardedRouteOrder(req)
        /\ req.pc = "done" =>
              \/ req.status = 401 /\ ~ req.handlerRan
              \/ req.status = 403 /\ ~ req.handlerRan
              \/ req.status = 0 /\ req.handlerRan
              \/ /\ req.status = 500 /\ ~ req.handlerRan
                 /\ config.publicKey = "" /\ req.verified = "no" /\ req.user = NULL

\* C4 witness: a request on a guarded route went through Valid and
\* Authorized and reached its handler.
C4_Witness ==
    /\ req.chain = GuardedRoute
    /\ req.required # {}
    /\ req.pc = "done"
    /\ req.handlerRan
    /\ req.verified = "Valid"
    /\ req.guard = "Authorized"

\* C5: when requirePermissions has run on a request that carries no
\* attached claims, the request ended with 401 'User not authenticated' and
\* nothing after the guard ran, whatever the required set.
C5_GuardFailsClosedWithoutClaims ==
    (req.guardRan /\ req.user = NULL) =>
        /\ req.pc = "done"
        /\ req.status = 401
        /\ req.message = "User not authenticated"
        /\ req.guard = "no"
        /\ ~ req.handlerRan

\* C5 witness: the guard ran first in the stack with the empty required set
\* and answered 401.
C5_Witness ==
    /\ req.chain = MisorderedRoute
    /\ req.required = {}
    /\ req.guardRan
    /\ req.user = NULL
    /\ req.status = 401

\* C6: a credential as generateToken returned it, checked by
\* authenticateToken before its expiry, is Valid and the attached claims
\* carry the subject, roles, permissions, organization and email of the
\* authInfo the payload was built from.
C6_IssueVerifyRoundTrip ==
    (/\ req.genuine
     /\ req.authRan
     /\ req.authorization.token.payload.exp.t = "num"
     /\ req.authAt < req.authorization.token.payload.exp.v) =>
        /\ req.verified = "Valid"
        /\ req.user # NULL
        /\ req.user.sub = req.builtFrom.userId
        /\ req.user.roles = req.builtFrom.roles
        /\ req.user.permissions = req.builtFrom.permissions
        /\ req.user.org_id = req.builtFrom.organizationId
        /\ req.user.email = req.builtFrom.email

\* C6 witness: a credential issued after the clock advanced, for the user
\* holding two roles, was verified and its claims attached.
C6_Witness ==
    /\ req.genuine
    /\ req.verified = "Valid"
    /\ req.authAt > 0
    /\ Len(req.user.roles) = 2
    /\ Len(req.user.permissions) = 3
    /\ req.user.sub = "u1"

\* The request carried a token whose exp is a number not after the time at
\* which authenticateToken ran.
ExpiredWhenChecked(r) ==
    /\ CarriesToken(r)
    /\ r.authRan
    /\ HasField(r.authorization.token.payload, "exp")
    /\ r.authorization.token.payload.exp.t = "num"
    /\ r.authorization.token.payload.exp.v <= r.authAt

\* Verification of the request's token fails at every time from t on.
RejectedFrom(r, t) ==
    \A later \in t..(MaxTime + 1) :
        JwtVerify(r.authorization.token, config.publicKey, VerifyAlgorithms, later).err # ""

\* C7 as claimed: a credential expired when authenticateToken checks it is
\* answered 401 and no claims are attached, also when its signature is
\* valid; the clock never runs behind a check, and a credential rejected as
\* expired is rejected at every later time.
C7_ExpiredCredentialRejected ==
    /\ ExpiredWhenChecked(req) =>
          req.status = 401 /\ req.user = NULL /\ req.pc = "done" /\ ~ req.handlerRan
    /\ req.authRan => req.authAt <= now
    /\ req.error = "jwt expired" => RejectedFrom(req, req.authAt)

\* C7 as amended: the answer is 401 when a public key is configured, and 500
\* 'JWT public key not configured' when none is; the rest as claimed.
C7_ExpiredCredentialRejectedOrConfigError ==
    /\ ExpiredWhenChecked(req) =>
          /\ req.status = IF config.publicKey = "" THEN 500 ELSE 401
          /\ req.user = NULL /\ req.pc = "done" /\ ~ req.handlerRan
    /\ req.authRan => req.authAt <= now
    /\ req.error = "jwt expired" => RejectedFrom(req, req.authAt)

\* C7 witness: a credential as generateToken returned it, its signature
\* valid, was checked after its expiry and answered 401 'jwt expired'.
C7_Witness ==
    /\ req.genuine
    /\ ExpiredWhenChecked(req)
    /\ SignatureVerifies(req.authorization.token, config.publicKey)
    /\ req.status = 401
    /\ req.error = "jwt expired"

\* The request carried a token whose header asserts an algorithm other than
\* RS256, and authenticateToken ran on it.
OtherAlgorithmChecked(r) ==
    /\ CarriesToken(r)
    /\ r.authRan
    /\ r.authorization.token.header.alg # "RS256"

\* C8 as claimed: a token asserting an algorithm other than RS256 is
\* answered 401 and no claims are attached.
C8_OtherAlgorithmRejected ==
    OtherAlgorithmChecked(req) =>
        /\ req.status = 401
        /\ req.user = NULL /\ req.verified # "Valid" /\ req.pc = "done" /\ ~ req.handlerRan

\* C8 as amended: the answer is 401 when a public key is configured, and 500
\* 'JWT public key not configured' when none is; no claims are attached.
C8_OtherAlgorithmRejectedOrConfigError ==
    OtherAlgorithmChecked(req) =>
        /\ req.status = IF config.publicKey = "" THEN 500 ELSE 401
        /\ req.user = NULL /\ req.verified # "Valid" /\ req.pc = "done" /\ ~ req.handlerRan

\* C8 witness: an unexpired HS256 token whose MAC is keyed with the
\* configured public key was answered 401 'invalid algorithm'.
C8_Witness ==
    /\ OtherAlgorithmChecked(req)
    /\ req.authorization.token.header.alg = "HS256"
    /\ req.authorization.token.signature.key = config.publicKey
    /\ req.authAt < req.authorization.token.payload.exp.v
    /\ req.status = 401
    /\ req.error = "invalid algorithm"

\* What the client sees of a response: the status and the JSON body.
ClientVisible(r) == [status |-> r.status, message |-> r.message, error |-> r.error]

\* The response authenticateToken gives now to 'Bearer ' and token t.
ResponseTo(t) ==
    ClientVisible(AuthenticateTokenOn(
        [NoRequest EXCEPT !.pc = "running", !.chain = MeRoute, !.idx = 1,
                          !.authorization = [prefix |-> "Bearer ", token |-> t]], now))

\* jwt.verify fails on t now.
FailsVerification(t) ==
    JwtVerify(t, config.publicKey, VerifyAlgorithms, now).err # ""

\* C13: a request whose credential failed verification got the response
\* that every other credential failing verification gets, whatever the
\* reason of either failure: status 401 and the same body.
C13_UniformInvalidResponse ==
    (req.pc = "done" /\ req.verified = "Invalid" /\ req.authAt = now) =>
        /\ req.status = 401
        /\ \A t \in Presentable :
              FailsVerification(t) => ResponseTo(t) = ClientVisible(req)

\* The request came without an Authorization header, or with one that does
\* not start with 'Bearer '.
NoBearerHeader(r) == r.authorization = NULL \/ r.authorization.prefix # "Bearer "

\* C14: when authenticateToken has run on a request that has no
\* Authorization header, or one without the 'Bearer ' prefix, the request
\* ended with 401 'Missing or invalid token' and nothing else in the body,
\* jwt.verify was not called, no claims were attached and next() was not
\* called.
C14_MissingOrMalformedHeaderRejected ==
    (req.authRan /\ NoBearerHeader(req)) =>
        /\ req.pc = "done"
        /\ ClientVisible(req) =
              [status |-> 401, message |-> "Missing or invalid token", error |-> ""]
        /\ req.responses = 1
        /\ req.verified = "no"
        /\ req.user = NULL
        /\ req.idx = 1
        /\ ~ req.guardRan /\ ~ req.handlerRan

\* C14 witness: a header that carries a well-signed token without the scheme
\* prefix was answered 401, with the public key configured.
C14_Witness ==
    /\ req.authRan
    /\ req.authorization # NULL
    /\ req.authorization.prefix = ""
    /\ req.authorization.token = LegacyToken
    /\ config.publicKey # ""
    /\ req.status = 401
    /\ req.pc = "done"

----------------------------------------------------------------------------
(* SpecSnapshot: a client presents the credential it was issued to guarded
   routes while administrators take roles and permissions away and the
   clock advances *)

\* The issued credential under the Bearer scheme.
HeldAuthorization == [prefix |-> "Bearer ", token |-> issued.jwt]

GuardedRoutes == {[chain |-> GuardedRoute, required |-> R] : R \in RequiredSets}

InitSnapshot ==
    /\ PopulatedStore
    /\ config \in {JwtConfig(TRUE, s) : s \in GuardLifetimes}
    /\ now = 0
    /\ gen = GenIdle("", "none")
    /\ issued = NoCredential
    /\ req = NoRequest
    /\ call = NoCall
    /\ publisher = StartedPublisher(TRUE)
    /\ brokerUp = TRUE
    /\ procs = NoProcs
    /\ sys = StartedProcess

NextSnapshot ==
    \/ RemoveRoleFromUser("u1", "r1")
    \/ RemovePermissionFromRole("r1", "p1")
    \/ GenerateTokenStart("u1")
    \/ GenerateTokenSign
    \/ Tick
    \/ \E route \in GuardedRoutes :
          issued.jwt # NULL /\ ReceiveRequest(HeldAuthorization, route)
    \/ AuthenticateToken
    \/ RequirePermissions
    \/ Handler

SpecSnapshot == InitSnapshot /\ [][NextSnapshot]_vars

\* The permissions the credential of request r carries.
CarriedPermissions(r) == Range(r.authorization.token.payload.permissions)

\* The credential of request r has an expiry, and authenticateToken ran
\* before it.
CheckedBeforeExpiry(r) ==
    /\ r.authorization.token.payload.exp.t = "num"
    /\ r.authAt < r.authorization.token.payload.exp.v

\* C15: a finished request to a guarded route that carried an issued
\* credential was decided by the credential alone, not by what the store
\* grants now: checked before the expiry it was verified, and it reached
\* the handler exactly if the credential carries every required
\* permission; checked at or after the expiry it was answered 401.
C15_CredentialIsSnapshot ==
    (req.pc = "done" /\ req.genuine
        /\ req.authorization.token.payload.exp.t = "num") =>
        IF CheckedBeforeExpiry(req)
        THEN /\ req.verified = "Valid"
             /\ req.handlerRan <=> req.required \subseteq CarriedPermissions(req)
             /\ ~ req.handlerRan => req.status = 403
        ELSE /\ req.status = 401
             /\ ~ req.handlerRan

\* C15 witness: a request requiring users:read reached the handler on a
\* credential that carries it, although the store does not grant it to the
\* subject any more.
C15_Witness ==
    /\ req.pc = "done" /\ req.genuine
    /\ req.required = {"users:read"}
    /\ req.handlerRan
    /\ "users:read" \notin GrantedNames("u1")
    /\ CheckedBeforeExpiry(req)

----------------------------------------------------------------------------
(* SpecAuth: clients register, log in and sign in with Google, one call at a
   time, while the broker comes and goes *)

InitAuth ==
    /\ users = <<>>
    /\ roles = [r \in RoleIds |-> [id |-> r, name |-> RoleNameOf(r)]]
    /\ rolePerms = {<<"r1", "p1">>, <<"r1", "p2">>, <<"r2", "p3">>}
    /\ userRoles = {}
    /\ config \in {JwtConfig(k, <<>>) : k \in BOOLEAN}
    /\ now = 0
    /\ gen = GenIdle("", "none")
    /\ issued = NoCredential
    /\ req = NoRequest
    /\ call = NoCall
    /\ brokerUp \in BOOLEAN
    /\ publisher = StartedPublisher(brokerUp)
    /\ procs = NoProcs
    /\ sys = StartedProcess

NextAuth ==
    \/ \E email \in Emails : Register(email, "pw1")
    \/ \E email \in Emails, password \in Passwords : Login(email, password)
    \/ \E idToken \in GoogleIdTokens : GoogleOAuth(idToken)
    \/ PublishUserRegistered
    \/ ConnectAttempt
    \/ CallGenerateToken
    \/ GenerateTokenSign
    \/ ReturnFromCall
    \/ BrokerChanges
    \/ ConnectionClosed

SpecAuth == InitAuth /\ [][NextAuth]_vars

----------------------------------------------------------------------------
(* Claims about register, login and googleOAuth, checked under SpecAuth *)

\* C12: while no private key is configured, generateToken never gets as far
\* as resolving the user or signing: it throws 'JWT private key not
\* configured', no token exists, and every register, login and googleOAuth
\* call that got as far as generateToken ends with that error and without
\* a token.
C12_NoPrivateKeyNoCredential ==
    config.privateKey = "" =>
        /\ gen.pc # "resolved"
        /\ gen.result \in {"none", "JWT private key not configured"}
        /\ issued.jwt = NULL
        /\ call.token = NULL
        /\ call.pc = "returned" =>
              /\ call.status \notin {200, 201}
              /\ call.userId # "" =>
                    call.status = 500 /\ call.message = "JWT private key not configured"

\* C12 witness: without a private key a register call has created its user
\* and then failed in generateToken with the configuration error.
C12_Witness ==
    /\ config.privateKey = ""
    /\ call.kind = "register"
    /\ call.pc = "returned"
    /\ call.userId \in DOMAIN users
    /\ call.message = "JWT private key not configured"
    /\ gen.result = "JWT private key not configured"

\* C17: a register call that has created its user does not wait for the
\* publisher's connection attempts, and with a key pair configured it
\* returns 201 with the user and a token whatever the broker does.
C17_RegisterDoesNotWaitForBroker ==
    (call.kind = "register" /\ call.userId # "") =>
        /\ call.pc # "connecting"
        /\ call.attempt = 0 /\ call.waited = 0
        /\ (call.pc = "returned" /\ config.privateKey # "") =>
              call.status = 201 /\ call.token # NULL /\ call.user = call.userId

\* A call of the given kind starts in this step.
Starts(kind) ==
    /\ call.pc \in {"idle", "returned"}
    /\ call' # call
    /\ call'.kind = kind

\* C19: a register call for an address that a stored user has ends at once
\* with 400 'User with this email already exists': the call holds no user
\* and no token, and the step leaves the store, the publisher and the issued
\* credentials as they were.
C19_DuplicateEmailRejected ==
    [][(Starts("register") /\ FindUserByEmail(call'.email) # {})
          => /\ call'.pc = "returned"
             /\ call'.status = 400
             /\ call'.message = "User with this email already exists"
             /\ call'.userId = "" /\ call'.token = NULL /\ call'.user = ""
             /\ users' = users /\ userRoles' = userRoles
             /\ publisher' = publisher
             /\ issued' = issued /\ gen' = gen]_vars

\* C19 witness: a register call for the address of a stored user has been
\* rejected with 400.
C19_Witness ==
    /\ call.kind = "register"
    /\ call.pc = "returned"
    /\ call.status = 400
    /\ FindUserByEmail(call.email) # {}

\* login would reject this address and password: no row has the address,
\* or the row has no password, or the password is not the row's.
BadCredentials(email, password) ==
    \/ FindUserByEmail(email) = {}
    \/ \E u \in FindUserByEmail(email) :
          \/ users[u].password = NULL
          \/ ~ BcryptCompare(password, users[u].password)

\* C20: a login call with an unknown address, for a row without a password
\* or with a wrong password ends at once with 401 'Invalid credentials',
\* whichever of the three it is; it holds no token, and the step starts no
\* generateToken call and signs nothing.
C20_LoginFailuresAreUniform ==
    [][(Starts("login") /\ BadCredentials(call'.email, call'.password))
          => /\ call' = Thrown(StartedCall("login", call'.email, call'.password),
                               401, "Invalid credentials")
             /\ call'.token = NULL
             /\ issued' = issued /\ gen' = gen]_vars

\* C20 witness: a login for the address of an account created by
\* googleOAuth, which has no password, has been rejected with 401.
C20_Witness ==
    /\ call.kind = "login"
    /\ call.pc = "returned"
    /\ call.status = 401
    /\ \E u \in FindUserByEmail(call.email) : users[u].password = NULL

\* C25: register is all-or-nothing: when register has failed after its
\* duplicate-address test (it created a row for the address and then threw),
\* no row for the address is in the store and no 'user.registered' message for
\* it has been handed to the channel.
C25_FailedRegisterLeavesNothing ==
    (call.kind = "register" /\ call.pc = "returned" /\ call.status = 500) =>
        /\ FindUserByEmail(call.email) = {}
        /\ call.userId \notin publisher.published

----------------------------------------------------------------------------
(* SpecMe: clients register and log in, and present the token they were
   returned to GET /api/users/me *)

\* 'Bearer ' and the token the latest call returned.
ReturnedAuthorization == [prefix |-> "Bearer ", token |-> call.token]

InitMe ==
    /\ users = <<>>
    /\ roles = [r \in RoleIds |-> [id |-> r, name |-> RoleNameOf(r)]]
    /\ rolePerms = {<<"r1", "p1">>, <<"r1", "p2">>, <<"r2", "p3">>}
    /\ userRoles = {}
    /\ config = JwtConfig(TRUE, <<>>)
    /\ now = 0
    /\ gen = GenIdle("", "none")
    /\ issued = NoCredential
    /\ req = NoRequest
    /\ call = NoCall
    /\ brokerUp = TRUE
    /\ publisher = StartedPublisher(brokerUp)
    /\ procs = NoProcs
    /\ sys = StartedProcess

NextMe ==
    \/ \E email \in Emails : Register(email, "pw1")
    \/ \E email \in Emails, password \in Passwords : Login(email, password)
    \/ PublishUserRegistered
    \/ CallGenerateToken
    \/ GenerateTokenSign
    \/ ReturnFromCall
    \/ /\ call.pc = "returned"
       /\ call.token # NULL
       /\ ReceiveRequest(ReturnedAuthorization, [chain |-> MeRoute, required |-> {}])
    \/ AuthenticateToken
    \/ GetCurrentUser

SpecMe == InitMe /\ [][NextMe]_vars

\* C18: a request to GET /api/users/me that presented a token returned by
\* register or login, before the token expired, was answered 200 with the
\* profile of the token's subject.
C18_MeReturnsTokenSubject ==
    (req.pc = "done" /\ CarriesToken(req)) =>
        /\ req.status = 200
        /\ req.body # NULL
        /\ req.body.id = req.authorization.token.payload.sub

----------------------------------------------------------------------------
(* The key id: generateKid and JwksController.getJwks *)

\* The characters of a PEM text, as far as keys differ in them.
PemChars == {"-", "k", "q"}

CharCode(c) == CASE c = "-" -> 45 [] c = "k" -> 107 [] c = "q" -> 113

Base64Alphabet ==
    <<"A", "B", "C", "D", "E", "F", "G", "H", "I", "J", "K", "L", "M", "N", "O", "P",
      "Q", "R", "S", "T", "U", "V", "W", "X", "Y", "Z", "a", "b", "c", "d", "e", "f",
      "g", "h", "i", "j", "k", "l", "m", "n", "o", "p", "q", "r", "s", "t", "u", "v",
      "w", "x", "y", "z", "0", "1", "2", "3", "4", "5", "6", "7", "8", "9", "+", "/">>

HexAlphabet ==
    <<"0", "1", "2", "3", "4", "5", "6", "7", "8", "9", "a", "b", "c", "d", "e", "f">>

DigestModulus == 4096

\* createHash('sha256').update(text): a digest of fixed size that depends on
\* every character of the text and on its position.
RECURSIVE HashUpdate(_, _)
HashUpdate(text, acc) ==
    IF text = <<>> THEN acc
    ELSE HashUpdate(Tail(text), ((acc * 31) + CharCode(Head(text)) + 7) % DigestModulus)

Sha256(text) == HashUpdate(text, 17)

Base64Length == 44

\* .digest('base64'): 43 characters of the base64 alphabet and the padding.
DigestBase64(d) ==
    [i \in 1..Base64Length |->
        IF i = Base64Length THEN "="
        ELSE Base64Alphabet[(((d \div (IF i % 2 = 1 THEN 64 ELSE 1)) + (i \div 3)) % 64) + 1]]

\* .digest('hex'): 64 hexadecimal characters.
DigestHex(d) ==
    [i \in 1..64 |->
        HexAlphabet[(((d \div (IF i % 3 = 1 THEN 256 ELSE IF i % 3 = 2 THEN 16 ELSE 1)) + (i \div 4)) % 16) + 1]]

\* String.prototype.substring(0, n)
Substring0(str, n) == SubSeq(str, 1, IF Len(str) < n THEN Len(str) ELSE n)

KidLength == 8

\* generateKid taking the digest in hexadecimal.
GenerateKidHex(publicKey) == Substring0(DigestHex(Sha256(publicKey)), KidLength)

\* generateKid(publicKey) of utils/jwt.ts
GenerateKid(publicKey) == Substring0(DigestBase64(Sha256(publicKey)), KidLength)

\* crypto.createPublicKey(pem) accepts the text (a PEM starts with its
\* '-----BEGIN' line).
ParsesAsPublicKey(pem) == pem # <<>> /\ Head(pem) = "-"

\* pemToJwk(publicKeyPem, kid), as far as the key id goes.
PemToJwk(publicKeyPem, kid) == [kty |-> "RSA", use |-> "sig", kid |-> kid, alg |-> "RS256"]

\* A caller computes generateKid(pem).
GenerateKidCall(pem) ==
    /\ call' = [NoCall EXCEPT !.kind = "generateKid", !.pc = "returned",
                              !.pem = pem, !.kid = GenerateKid(pem)]
    /\ UNCHANGED <<users, roles, userRoles, rolePerms, config, now, gen, issued, req,
                   publisher, brokerUp, procs, sys>>

\* getJwks(req, res): GET /.well-known/jwks.json
GetJwks ==
    /\ req' =
         IF config.publicKey = <<>>
         THEN Respond(NoRequest, 500, "", "JWKS endpoint not available")
         ELSE LET kid == Substring0(DigestBase64(Sha256(config.publicKey)), KidLength)
              IN IF ~ ParsesAsPublicKey(config.publicKey)
                 THEN Respond(NoRequest, 500, "", "Failed to generate JWKS")
                 ELSE [Respond(NoRequest, 200, "", "") EXCEPT
                          !.body = [keys |-> <<PemToJwk(config.publicKey, kid)>>]]
    /\ UNCHANGED <<users, roles, userRoles, rolePerms, config, now, gen, issued,
                   call, publisher, brokerUp, procs, sys>>

MaxPemLen == 2

\* The public key texts the configuration can hold (none: the empty text).
PemTexts == UNION {[1..n -> PemChars] : n \in 0..MaxPemLen}

InitKid ==
    /\ PopulatedStore
    /\ config \in {[JwtConfig(TRUE, <<>>) EXCEPT !.publicKey = pem] : pem \in PemTexts}
    /\ now = 0
    /\ gen = GenIdle("", "none")
    /\ issued = NoCredential
    /\ req = NoRequest
    /\ call = NoCall
    /\ brokerUp = TRUE
    /\ publisher = StartedPublisher(brokerUp)
    /\ procs = NoProcs
    /\ sys = StartedProcess

NextKid ==
    \/ \E pem \in PemTexts : GenerateKidCall(pem)
    \/ GetJwks

SpecKid == InitKid /\ [][NextKid]_vars

\* C16: the kid generateKid computes from a PEM is the kid getJwks publishes
\* for the same PEM, it is what generateKid gives on every computation from
\* that PEM, and it has 8 characters.
C16_KidIsStable ==
    call.kind = "generateKid" =>
        /\ Len(call.kid) = KidLength
        /\ call.kid = GenerateKid(call.pem)
        /\ (req.status = 200 /\ call.pem = config.publicKey) =>
              req.body.keys[1].kid = call.kid

\* C16 witness: generateKid has been computed from the configured public
\* key and getJwks has published a key set for it.
C16_Witness ==
    /\ call.kind = "generateKid"
    /\ call.pem = config.publicKey
    /\ Len(call.pem) = 2
    /\ req.status = 200
    /\ req.body.keys[1].kid = call.kid

----------------------------------------------------------------------------
(* SpecVerify: clients register, sign in with Google and verify their
   address, one call at a time *)

\* The verification tokens clients send: the ones the service generates and
\* one it never generated.
VerificationTokens ==
    {GenerateEmailVerificationToken(u) : u \in UserIds} \cup {[hex |-> "unknown"]}

InitVerify ==
    /\ users = <<>>
    /\ roles = [r \in RoleIds |-> [id |-> r, name |-> RoleNameOf(r)]]
    /\ rolePerms = {<<"r1", "p1">>, <<"r1", "p2">>, <<"r2", "p3">>}
    /\ userRoles = {}
    /\ config = JwtConfig(TRUE, <<>>)
    /\ now = 0
    /\ gen = GenIdle("", "none")
    /\ issued = NoCredential
    /\ req = NoRequest
    /\ call = NoCall
    /\ brokerUp = TRUE
    /\ publisher = StartedPublisher(brokerUp)
    /\ procs = NoProcs
    /\ sys = StartedProcess

NextVerify ==
    \/ \E email \in Emails : Register(email, "pw1")
    \/ PublishUserRegistered
    \/ CallGenerateToken
    \/ GenerateTokenSign
    \/ ReturnFromCall
    \/ \E idToken \in GoogleIdTokens : GoogleOAuth(idToken)
    \/ \E token \in VerificationTokens : VerifyEmail(token)

SpecVerify == InitVerify /\ [][NextVerify]_vars

\* C21: an e-mail verification token is single-use. After a verifyEmail(t)
\* that succeeded, the user it was for is verified and no row holds t; a
\* token no row holds is never held again; and verifyEmail with a token no
\* row holds fails with 400 'Invalid verification token' and changes no row.
C21_VerificationTokenIsSingleUse ==
    /\ []((call.kind = "verifyEmail" /\ call.pc = "returned" /\ call.status = 200) =>
            /\ users[call.userId].emailVerified
            /\ users[call.userId].emailVerificationToken = NULL
            /\ FindUserByVerificationToken(call.arg) = {})
    /\ [][\A u \in DOMAIN users :
              FindUserByVerificationToken(GenerateEmailVerificationToken(u)) = {} =>
                 \A v \in DOMAIN users' :
                    users'[v].emailVerificationToken # GenerateEmailVerificationToken(u)]_vars
    /\ [][(call' # call /\ call'.kind = "verifyEmail"
           /\ FindUserByVerificationToken(call'.arg) = {}) =>
              /\ call'.status = 400
              /\ call'.message = "Invalid verification token"
              /\ users' = users]_vars

\* C26: in every state a user whose address is verified has no stored
\* verification token.
C26_VerifiedHasNoToken ==
    \A u \in DOMAIN users :
        users[u].emailVerified => users[u].emailVerificationToken = NULL

----------------------------------------------------------------------------
(* SpecPassword: two registered users log in and request, reset and change
   their passwords, one call at a time, while the hours pass *)

\* The reset tokens clients send: the ones the service generates and one it
\* never generated.
ResetTokens ==
    {[hex |-> "reset", draw |-> n] : n \in 0..(MaxDrawn - 1)} \cup {[hex |-> "unknown"]}

MaxHours == 2

\* An hour passes.
HourPasses ==
    /\ now < MaxHours * SecondsPerHour
    /\ now' = now + SecondsPerHour
    /\ UNCHANGED <<users, roles, userRoles, rolePerms, config, gen, issued, req, call,
                   publisher, brokerUp, procs, sys>>

\* The row register(email, password) has saved under the id u.
RegisteredRow(u, password) ==
    NewUserRow(u, [email |-> Email(u), password |-> BcryptHash(password),
                   firstName |-> <<"A">>, lastName |-> <<"L">>,
                   emailVerificationToken |-> GenerateEmailVerificationToken(u)])

InitPassword ==
    /\ users = [u \in UserIds |-> RegisteredRow(u, "pw1")]
    /\ roles = [r \in RoleIds |-> [id |-> r, name |-> RoleNameOf(r)]]
    /\ rolePerms = {<<"r1", "p1">>, <<"r1", "p2">>, <<"r2", "p3">>}
    /\ userRoles = {}
    /\ config = JwtConfig(TRUE, <<>>)
    /\ now = 0
    /\ gen = GenIdle("", "none")
    /\ issued = NoCredential
    /\ req = NoRequest
    /\ call = NoCall
    /\ brokerUp = TRUE
    /\ publisher = [StartedPublisher(brokerUp) EXCEPT !.published = UserIds]
    /\ procs = NoProcs
    /\ sys = StartedProcess

NextPassword ==
    \/ \E email \in Emails, password \in Passwords : Login(email, password)
    \/ CallGenerateToken
    \/ GenerateTokenSign
    \/ ReturnFromCall
    \/ \E email \in Emails : RequestPasswordReset(email)
    \/ \E token \in ResetTokens, newPassword \in Passwords : ResetPassword(token, newPassword)
    \/ \E u \in UserIds, currentPassword \in Passwords, newPassword \in Passwords :
          ChangePassword(u, currentPassword, newPassword)
    \/ HourPasses

SpecPassword == InitPassword /\ [][NextPassword]_vars

----------------------------------------------------------------------------
(* Claims about the password operations, checked under SpecPassword *)

\* The step is a login for the address of the user whose changePassword has
\* just succeeded.
LoginAfterChange ==
    /\ call.kind = "changePassword"
    /\ call.pc = "returned"
    /\ call.status = 200
    /\ call' # call
    /\ call'.kind = "login"
    /\ call'.email = users[call.userId].email

\* The step is a changePassword for a stored user with a password, given a
\* current password that is not the stored one.
ChangeWithWrongCurrent ==
    /\ call.pc \in {"idle", "returned"}
    /\ call' # call
    /\ call'.kind = "changePassword"
    /\ call'.userId \in DOMAIN users
    /\ users[call'.userId].password # NULL
    /\ ~ BcryptCompare(call'.password, users[call'.userId].password)

\* C22 as stated: right after a successful changePassword, login with the old
\* password is answered 401 and login with the new password succeeds; a
\* changePassword with a wrong current password is answered 401 and leaves
\* the stored password as it was.
C22_ChangePasswordTakesEffect ==
    /\ [][LoginAfterChange =>
            /\ (call'.password = call.password =>
                    call'.pc = "returned" /\ call'.status = 401)
            /\ (call'.password = call.newPassword => call'.pc = "generate")]_vars
    /\ [][ChangeWithWrongCurrent =>
            /\ call'.pc = "returned"
            /\ call'.status = 401
            /\ users' = users]_vars
    /\ []((call.kind = "login" /\ call.pc = "returned" /\ call.status # 401) =>
            call.status = 200 /\ call.token # NULL)

\* C22, amended: the same, the login with the old password being refused
\* when the new password differs from the old one.
C22_ChangePasswordTakesEffectWhenDifferent ==
    /\ [][LoginAfterChange =>
            /\ ((call'.password = call.password /\ call.password # call.newPassword) =>
                    call'.pc = "returned" /\ call'.status = 401)
            /\ (call'.password = call.newPassword => call'.pc = "generate")]_vars
    /\ [][ChangeWithWrongCurrent =>
            /\ call'.pc = "returned"
            /\ call'.status = 401
            /\ users' = users]_vars
    /\ []((call.kind = "login" /\ call.pc = "returned" /\ call.status # 401) =>
            call.status = 200 /\ call.token # NULL)

\* C22 witness: u1, registered with pw1, has logged in with pw2 and been
\* given a token, no password reset having been requested.
C22_Witness ==
    /\ call.kind = "login"
    /\ call.pc = "returned"
    /\ call.status = 200
    /\ call.email = Email("u1")
    /\ call.password = "pw2"
    /\ users["u1"].password = BcryptHash("pw2")
    /\ sys.drawn = 0

\* The step is a resetPassword call.
ResetStep ==
    /\ call.pc \in {"idle", "returned"}
    /\ call' # call
    /\ call'.kind = "resetPassword"

\* The users whose reset token is the given one and has not expired.
HoldersInTime(token) ==
    {u \in FindUserByPasswordResetToken(token) :
        /\ users[u].passwordResetTokenExpiresAt # NULL
        /\ now <= users[u].passwordResetTokenExpiresAt.time}

\* C27: a password-reset token is single-use and time-bounded. resetPassword
\* changes a row only for a token a user holds whose expiry has not passed,
\* and then it stores the new password for that user alone and clears the
\* token, so that no row holds it; a token that was generated and that no
\* row holds is never held again; resetPassword with a token no row holds,
\* or one that has expired, is answered 400 and changes no row.
C27_ResetTokenSingleUseAndTimeBounded ==
    /\ [][ResetStep =>
            IF HoldersInTime(call'.arg) # {}
            THEN /\ call'.status = 200
                 /\ call'.userId \in HoldersInTime(call'.arg)
                 /\ users'[call'.userId].password = BcryptHash(call'.newPassword)
                 /\ \A v \in DOMAIN users \ {call'.userId} : users'[v] = users[v]
                 /\ \A v \in DOMAIN users' : users'[v].passwordResetToken # call'.arg
            ELSE /\ call'.status = 400
                 /\ call'.message = "Invalid or expired password reset token"
                 /\ users' = users]_vars
    /\ [][\A n \in 0..(sys.drawn - 1) :
              FindUserByPasswordResetToken([hex |-> "reset", draw |-> n]) = {} =>
                 \A v \in DOMAIN users' :
                    users'[v].passwordResetToken # [hex |-> "reset", draw |-> n]]_vars

\* C27 witness: the one token generated so far has been used (no row holds
\* it any more) and a second resetPassword with it has been refused.
C27_Witness ==
    /\ call.kind = "resetPassword"
    /\ call.status = 400
    /\ call.arg = [hex |-> "reset", draw |-> 0]
    /\ sys.drawn = 1
    /\ FindUserByPasswordResetToken(call.arg) = {}
    /\ \E u \in DOMAIN users : users[u].password = BcryptHash("pw2")

----------------------------------------------------------------------------
(* RoleService.createRole and updateRole as administrators call them
   concurrently: every await is a point where the other call can run *)

RoleCallers == {"a", "b"}

RoleNames == {RoleNameOf(r) : r \in RoleIds}

\* A caller between calls.
IdleCaller == [op |-> "none", pc |-> "idle", id |-> "", name |-> "", status |-> 0,
               message |-> ""]

\* roleRepository.findRoleByName(name): the ids of the rows with the name.
FindRoleByName(name) == {r \in DOMAIN roles : roles[r].name = name}

\* The call threw: an AppError with its status, or the driver's
\* QueryFailedError, which has none and which errorHandler answers with 500.
CallerThrew(c, status, message) ==
    [c EXCEPT !.pc = "returned", !.status = status, !.message = message]

UniqueViolation == "duplicate key value violates unique constraint UQ_roles_name"

\* createRole(name) up to its first await: findRoleByName, then the test.
CreateRoleFind(p, name) ==
    /\ procs[p].pc \in {"idle", "returned"}
    /\ LET started == [IdleCaller EXCEPT !.op = "createRole", !.name = name]
       IN procs' = [procs EXCEPT ![p] =
                      IF FindRoleByName(name) # {}
                      THEN CallerThrew(started, 400, "Role with this name already exists")
                      ELSE [started EXCEPT !.pc = "save"]]
    /\ UNCHANGED <<users, roles, userRoles, rolePerms, config, now, gen, issued, req,
                   call, publisher, brokerUp, sys>>

\* roleRepository.createRole(name): the INSERT, which the UNIQUE constraint
\* on the name fails when another row has taken the name meanwhile.
CreateRoleSave(p) ==
    /\ procs[p].op = "createRole"
    /\ procs[p].pc = "save"
    /\ IF FindRoleByName(procs[p].name) # {}
       THEN /\ procs' = [procs EXCEPT ![p] = CallerThrew(@, 500, UniqueViolation)]
            /\ UNCHANGED roles
       ELSE \E r \in RoleIds \ DOMAIN roles :
              /\ roles' = [q \in DOMAIN roles \cup {r} |->
                              IF q = r THEN [id |-> r, name |-> procs[p].name] ELSE roles[q]]
              /\ procs' = [procs EXCEPT ![p] =
                              [@ EXCEPT !.pc = "returned", !.status = 201, !.id = r]]
    /\ UNCHANGED <<users, userRoles, rolePerms, config, now, gen, issued, req,
                   call, publisher, brokerUp, sys>>

\* updateRole(id, {name}) up to its first await: findRoleByName, then the
\* test that the name belongs to no other role.
UpdateRoleFind(p, id, name) ==
    /\ procs[p].pc \in {"idle", "returned"}
    /\ LET started == [IdleCaller EXCEPT !.op = "updateRole", !.id = id, !.name = name]
       IN procs' = [procs EXCEPT ![p] =
                      IF FindRoleByName(name) \ {id} # {}
                      THEN CallerThrew(started, 400, "Role with this name already exists")
                      ELSE [started EXCEPT !.pc = "load"]]
    /\ UNCHANGED <<users, roles, userRoles, rolePerms, config, now, gen, issued, req,
                   call, publisher, brokerUp, sys>>

\* roleRepository.updateRole(id, updates), its findOne: 404 when there is no
\* such role.
UpdateRoleLoad(p) ==
    /\ procs[p].op = "updateRole"
    /\ procs[p].pc = "load"
    /\ procs' = [procs EXCEPT ![p] =
                    IF procs[p].id \notin DOMAIN roles
                    THEN CallerThrew(@, 404, "Role not found")
                    ELSE [@ EXCEPT !.pc = "save"]]
    /\ UNCHANGED <<users, roles, userRoles, rolePerms, config, now, gen, issued, req,
                   call, publisher, brokerUp, sys>>

\* roleRepository.updateRole(id, updates), its save: the UPDATE, which the
\* UNIQUE constraint fails when another row has the name.
UpdateRoleSave(p) ==
    /\ procs[p].op = "updateRole"
    /\ procs[p].pc = "save"
    /\ IF FindRoleByName(procs[p].name) \ {procs[p].id} # {}
       THEN /\ procs' = [procs EXCEPT ![p] = CallerThrew(@, 500, UniqueViolation)]
            /\ UNCHANGED roles
       ELSE /\ roles' = [roles EXCEPT ![procs[p].id].name = procs[p].name]
            /\ procs' = [procs EXCEPT ![p] = [@ EXCEPT !.pc = "returned", !.status = 200]]
    /\ UNCHANGED <<users, userRoles, rolePerms, config, now, gen, issued, req,
                   call, publisher, brokerUp, sys>>

\* The store with no role yet, and two administrators.
InitRoles ==
    /\ users = <<>>
    /\ roles = <<>>
    /\ rolePerms = {}
    /\ userRoles = {}
    /\ config = JwtConfig(TRUE, <<>>)
    /\ now = 0
    /\ gen = GenIdle("", "none")
    /\ issued = NoCredential
    /\ req = NoRequest
    /\ call = NoCall
    /\ brokerUp = TRUE
    /\ publisher = StartedPublisher(brokerUp)
    /\ procs = [p \in RoleCallers |-> IdleCaller]
    /\ sys = StartedProcess

NextRoles ==
    \/ \E p \in RoleCallers, name \in RoleNames : CreateRoleFind(p, name)
    \/ \E p \in RoleCallers : CreateRoleSave(p)
    \/ \E p \in RoleCallers, id \in RoleIds, name \in RoleNames : UpdateRoleFind(p, id, name)
    \/ \E p \in RoleCallers : UpdateRoleLoad(p)
    \/ \E p \in RoleCallers : UpdateRoleSave(p)

SpecRoles == InitRoles /\ [][NextRoles]_vars

\* C24: in every state no two roles have the same name, and a createRole or
\* updateRole call that ends without writing because the name belongs to
\* another role has been rejected with 400, also when the other call took
\* the name while this one was running.
C24_RoleNamesUnique ==
    /\ \A q, r \in DOMAIN roles : roles[q].name = roles[r].name => q = r
    /\ \A p \in DOMAIN procs :
          (procs[p].pc = "returned" /\ procs[p].status \notin {200, 201, 404}) =>
              procs[p].status = 400

----------------------------------------------------------------------------
(* UserRepository.addRoleToUser and removeRoleFromUser, step by step: the
   load of the user with its roles, the change of the loaded array, and the
   save that brings the rows of user_roles in line with the array *)

\* A caller between calls; roles is its loaded user.roles array of role ids.
IdleAssigner == [op |-> "none", pc |-> "idle", user |-> "", role |-> "", roles |-> <<>>,
                 saved |-> FALSE, message |-> ""]

\* addRoleToUser pushing the role without looking for it in user.roles.
AddRoleLoadNoCheck(p, u, r) ==
    /\ procs[p].pc \in {"idle", "returned"}
    /\ \E loaded \in RoleOrders(u) :
         LET started == [IdleAssigner EXCEPT !.op = "addRoleToUser", !.user = u, !.role = r]
         IN procs' = [procs EXCEPT ![p] =
                        IF u \notin DOMAIN users
                        THEN [started EXCEPT !.pc = "returned", !.message = "User not found"]
                        ELSE IF r \notin DOMAIN roles
                        THEN [started EXCEPT !.pc = "returned", !.message = "Role not found"]
                        ELSE [started EXCEPT !.pc = "save", !.roles = Append(loaded, r)]]
    /\ UNCHANGED <<users, roles, userRoles, rolePerms, config, now, gen, issued, req,
                   call, publisher, brokerUp, sys>>

\* addRoleToUser(userId, roleId) up to its save: the user is loaded with its
\* roles, then the role; the role is pushed unless user.roles has it.
AddRoleLoad(p, u, r) ==
    /\ procs[p].pc \in {"idle", "returned"}
    /\ \E loaded \in RoleOrders(u) :
         LET started == [IdleAssigner EXCEPT !.op = "addRoleToUser", !.user = u, !.role = r]
         IN procs' = [procs EXCEPT ![p] =
                        IF u \notin DOMAIN users
                        THEN [started EXCEPT !.pc = "returned", !.message = "User not found"]
                        ELSE IF r \notin DOMAIN roles
                        THEN [started EXCEPT !.pc = "returned", !.message = "Role not found"]
                        ELSE IF \E i \in DOMAIN loaded : loaded[i] = r
                        THEN [started EXCEPT !.pc = "returned", !.roles = loaded]
                        ELSE [started EXCEPT !.pc = "save", !.roles = Append(loaded, r)]]
    /\ UNCHANGED <<users, roles, userRoles, rolePerms, config, now, gen, issued, req,
                   call, publisher, brokerUp, sys>>

\* removeRoleFromUser(userId, roleId) up to its save: nothing without the
\* user, else the role is filtered out of the loaded array.
RemoveRoleLoad(p, u, r) ==
    /\ procs[p].pc \in {"idle", "returned"}
    /\ \E loaded \in RoleOrders(u) :
         LET started == [IdleAssigner EXCEPT !.op = "removeRoleFromUser", !.user = u,
                                             !.role = r]
         IN procs' = [procs EXCEPT ![p] =
                        IF u \notin DOMAIN users
                        THEN [started EXCEPT !.pc = "returned"]
                        ELSE [started EXCEPT !.pc = "save",
                                             !.roles = SelectSeq(loaded, LAMBDA x : x # r)]]
    /\ UNCHANGED <<users, roles, userRoles, rolePerms, config, now, gen, issued, req,
                   call, publisher, brokerUp, sys>>

\* this.repository.save(user): the rows of user_roles for the user become
\* the roles of the array (one row for each, the primary key being the
\* pair), which removes the rows of roles the array has not.
SaveUserRoles(p) ==
    /\ procs[p].pc = "save"
    /\ userRoles' = {ur \in userRoles : ur[1] # procs[p].user}
                       \cup {<<procs[p].user, procs[p].roles[i]>> : i \in DOMAIN procs[p].roles}
    /\ procs' = [procs EXCEPT ![p] = [@ EXCEPT !.pc = "returned", !.saved = TRUE]]
    /\ UNCHANGED <<users, roles, rolePerms, config, now, gen, issued, req,
                   call, publisher, brokerUp, sys>>

InitAssign ==
    /\ users = [u \in UserIds |-> CreateUserRow(u)]
    /\ roles = [r \in RoleIds |-> [id |-> r, name |-> RoleNameOf(r)]]
    /\ rolePerms = {<<"r1", "p1">>, <<"r1", "p2">>, <<"r2", "p3">>}
    /\ userRoles = {}
    /\ config = JwtConfig(TRUE, <<>>)
    /\ now = 0
    /\ gen = GenIdle("", "none")
    /\ issued = NoCredential
    /\ req = NoRequest
    /\ call = NoCall
    /\ brokerUp = TRUE
    /\ publisher = StartedPublisher(brokerUp)
    /\ procs = [p \in RoleCallers |-> IdleAssigner]
    /\ sys = StartedProcess

NextAssign ==
    \/ \E p \in RoleCallers, u \in UserIds, r \in RoleIds : AddRoleLoad(p, u, r)
    \/ \E p \in RoleCallers, u \in UserIds, r \in RoleIds : RemoveRoleLoad(p, u, r)
    \/ \E p \in RoleCallers : SaveUserRoles(p)

SpecAssign == InitAssign /\ [][NextAssign]_vars

\* The step is an addRoleToUser(u, r) call for a user that holds r.
AddsHeldRole(p) ==
    /\ procs[p].pc \in {"idle", "returned"}
    /\ procs'[p] # procs[p]
    /\ procs'[p].op = "addRoleToUser"
    /\ <<procs'[p].user, procs'[p].role>> \in userRoles

\* C23: user-role assignment has set semantics. addRoleToUser(u, r) for a
\* user that holds r returns without saving and changes nothing; the array
\* a call is about to save holds no role twice; and the roles list resolved
\* for any user, in whatever order the rows are loaded, holds no name twice.
C23_AssignmentIsASet ==
    /\ [][\A p \in RoleCallers :
             AddsHeldRole(p) =>
                /\ procs'[p].pc = "returned"
                /\ ~ procs'[p].saved
                /\ userRoles' = userRoles]_vars
    /\ [](\A p \in RoleCallers : NoDuplicates(procs[p].roles))
    /\ [](\A u \in DOMAIN users : \A rOrd \in RoleOrders(u), pOrd \in PermOrders :
             NoDuplicates(ResolveUserAuthInfo(FindUserWithRoles(u, rOrd, pOrd)).roles))

\* C23 witness: a user holds both roles and an addRoleToUser for one of them
\* has returned without saving.
C23_Witness ==
    \E p \in RoleCallers :
        /\ procs[p].op = "addRoleToUser"
        /\ procs[p].pc = "returned"
        /\ ~ procs[p].saved
        /\ procs[p].message = ""
        /\ RolesOfUser(procs[p].user) = RoleIds

----------------------------------------------------------------------------
(* RabbitMQEventPublisher.publish and connect, await by await, as several
   callers run them at the same time *)

PublishCallers == {"a", "b"}

MaxOpened == 2

\* The publisher as constructed: connection (0 for null, else the number of
\* the connection the field refers to), channel, isConnected.
ConstructedPublisher ==
    [connection |-> 0, channel |-> FALSE, isConnected |-> FALSE, published |-> {},
     passwordResets |-> {}]

\* A caller between calls; attempt is connect()'s loop variable, failures
\* counts the attempts that failed, result is how connect() ended.
IdlePublishCaller == [pc |-> "idle", attempt |-> 0, failures |-> 0, result |-> "none"]

\* publish(routingKey, payload) up to its first await: with a channel and
\* connected the message goes to the channel; otherwise connect() is called,
\* which returns at once when everything is in place and otherwise enters
\* its loop.
PublishCall(p) ==
    /\ procs[p].pc \in {"idle", "done"}
    /\ IF publisher.channel /\ publisher.isConnected
       THEN /\ procs' = [procs EXCEPT ![p] = [IdlePublishCaller EXCEPT !.pc = "done"]]
            /\ publisher' = [publisher EXCEPT !.published = publisher.published \cup {p}]
       ELSE /\ procs' = [procs EXCEPT ![p] = [IdlePublishCaller EXCEPT !.pc = "dial"]]
            /\ UNCHANGED publisher
    /\ UNCHANGED <<users, roles, userRoles, rolePerms, config, now, gen, issued, req,
                   call, brokerUp, sys>>

\* The catch block of connect()'s loop when no attempt is the last one: it
\* always sleeps and goes round again.
AttemptFailedNeverLast(c) ==
    IF c.attempt + 1 < MaxRetries
    THEN [c EXCEPT !.pc = "dial", !.attempt = c.attempt + 1, !.failures = c.failures + 1]
    ELSE [c EXCEPT !.pc = "returning", !.attempt = c.attempt + 1,
                   !.failures = c.failures + 1, !.result = "returned"]

\* The catch block of connect()'s loop: the last attempt throws, any other
\* sleeps for the backoff delay and the loop goes round again.
AttemptFailed(c) ==
    IF c.attempt = MaxRetries - 1
    THEN [c EXCEPT !.pc = "returning", !.attempt = c.attempt + 1,
                   !.failures = c.failures + 1, !.result = "thrown"]
    ELSE [c EXCEPT !.pc = "dial", !.attempt = c.attempt + 1, !.failures = c.failures + 1]

\* this.connection = await connect(this.connectionOptions)
Dial(p) ==
    /\ procs[p].pc = "dial"
    /\ IF brokerUp
       THEN /\ sys.opened < MaxOpened
            /\ sys' = [sys EXCEPT !.opened = sys.opened + 1,
                                  !.open = sys.open \cup {sys.opened + 1}]
            /\ publisher' = [publisher EXCEPT !.connection = sys.opened + 1]
            /\ procs' = [procs EXCEPT ![p] = [@ EXCEPT !.pc = "createChannel"]]
       ELSE /\ procs' = [procs EXCEPT ![p] = AttemptFailed(@)]
            /\ UNCHANGED <<publisher, sys>>
    /\ UNCHANGED <<users, roles, userRoles, rolePerms, config, now, gen, issued, req,
                   call, brokerUp>>

\* this.channel = await this.connection.createChannel(), on the connection
\* the field refers to by now; it fails on a connection that has closed.
CreateChannel(p) ==
    /\ procs[p].pc = "createChannel"
    /\ IF publisher.connection \in sys.open
       THEN /\ publisher' = [publisher EXCEPT !.channel = TRUE]
            /\ procs' = [procs EXCEPT ![p] = [@ EXCEPT !.pc = "assertExchange"]]
       ELSE /\ procs' = [procs EXCEPT ![p] = AttemptFailed(@)]
            /\ UNCHANGED publisher
    /\ UNCHANGED <<users, roles, userRoles, rolePerms, config, now, gen, issued, req,
                   call, brokerUp, sys>>

\* await this.channel.assertExchange(...), then isConnected = true and the
\* 'error' and 'close' handlers on the connection the field refers to, and
\* connect() returns.
AssertExchange(p) ==
    /\ procs[p].pc = "assertExchange"
    /\ IF publisher.connection \in sys.open
       THEN /\ publisher' = [publisher EXCEPT !.isConnected = TRUE]
            /\ sys' = [sys EXCEPT !.handlers = sys.handlers \cup {publisher.connection}]
            /\ procs' = [procs EXCEPT ![p] = [@ EXCEPT !.pc = "returning",
                                                       !.result = "connected"]]
       ELSE /\ procs' = [procs EXCEPT ![p] = AttemptFailed(@)]
            /\ UNCHANGED <<publisher, sys>>
    /\ UNCHANGED <<users, roles, userRoles, rolePerms, config, now, gen, issued, req,
                   call, brokerUp>>

\* Back in publish() after connect(): nothing is published when connect()
\* threw or left no channel; otherwise the message goes to the channel.
PublishAfterConnect(p) ==
    /\ procs[p].pc = "returning"
    /\ procs' = [procs EXCEPT ![p] = [@ EXCEPT !.pc = "done"]]
    /\ publisher' =
         IF procs[p].result = "thrown" \/ ~ publisher.channel THEN publisher
         ELSE IF publisher.connection \in sys.open
         THEN [publisher EXCEPT !.published = publisher.published \cup {p}]
         ELSE [publisher EXCEPT !.isConnected = FALSE]
    /\ UNCHANGED <<users, roles, userRoles, rolePerms, config, now, gen, issued, req,
                   call, brokerUp, sys>>

\* The broker has gone: an open connection closes, and its 'close' handler,
\* if it has one, marks the publisher disconnected.
ConnectionLost(c) ==
    /\ ~ brokerUp
    /\ c \in sys.open
    /\ sys' = [sys EXCEPT !.open = sys.open \ {c}]
    /\ publisher' = IF c \in sys.handlers THEN [publisher EXCEPT !.isConnected = FALSE]
                    ELSE publisher
    /\ UNCHANGED <<users, roles, userRoles, rolePerms, config, now, gen, issued, req,
                   call, brokerUp, procs>>

InitPublisher ==
    /\ users = <<>>
    /\ roles = <<>>
    /\ rolePerms = {}
    /\ userRoles = {}
    /\ config = JwtConfig(TRUE, <<>>)
    /\ now = 0
    /\ gen = GenIdle("", "none")
    /\ issued = NoCredential
    /\ req = NoRequest
    /\ call = NoCall
    /\ brokerUp \in BOOLEAN
    /\ publisher = ConstructedPublisher
    /\ procs = [p \in PublishCallers |-> IdlePublishCaller]
    /\ sys = StartedProcess

NextPublisher ==
    \/ \E p \in PublishCallers : PublishCall(p)
    \/ \E p \in PublishCallers : Dial(p)
    \/ \E p \in PublishCallers : CreateChannel(p)
    \/ \E p \in PublishCallers : AssertExchange(p)
    \/ \E p \in PublishCallers : PublishAfterConnect(p)
    \/ \E c \in 1..MaxOpened : ConnectionLost(c)
    \/ BrokerChanges

SpecPublisher == InitPublisher /\ [][NextPublisher]_vars

\* C28: the publisher holds at most one broker connection at a time: at most
\* one connection is open, and every open connection is the one the
\* publisher's connection field refers to.
C28_SingleConnection ==
    /\ Cardinality(sys.open) <= 1
    /\ \A c \in sys.open : c = publisher.connection

\* The caller is inside connect()'s loop.
InConnectLoop(c) == c.pc \in {"dial", "createChannel", "assertExchange"}

\* C29: connect() ends after a bounded number of attempts. Inside the loop
\* fewer than maxRetries attempts have failed; it returns at the first
\* attempt that succeeds, every earlier one having failed; and once
\* maxRetries attempts have failed it has thrown and is not retrying.
C29_ConnectIsBounded ==
    \A p \in PublishCallers :
        /\ procs[p].attempt <= MaxRetries
        /\ procs[p].failures = procs[p].attempt
        /\ InConnectLoop(procs[p]) =>
              procs[p].attempt < MaxRetries /\ procs[p].result = "none"
        /\ procs[p].result = "connected" => procs[p].failures < MaxRetries
        /\ procs[p].failures = MaxRetries <=> procs[p].result = "thrown"
        /\ procs[p].result \in {"none", "connected", "thrown"}

\* C29 witness: one caller's connect() has thrown after ten failed attempts,
\* and the other's has succeeded after at least one failure.
C29_Witness ==
    /\ procs["a"].result = "thrown"
    /\ procs["a"].failures = MaxRetries
    /\ procs["b"].result = "connected"
    /\ procs["b"].failures > 0

----------------------------------------------------------------------------
(* server.ts: startServer and gracefulShutdown, await by await, with the
   signals and fatal errors that the process handlers pass to
   gracefulShutdown *)

MaxSignals == 3

\* What reaches gracefulShutdown, and whether it comes with an error.
ShutdownReasons ==
    {[reason |-> "SIGTERM", err |-> FALSE], [reason |-> "SIGINT", err |-> FALSE],
     [reason |-> "unhandledRejection", err |-> TRUE],
     [reason |-> "uncaughtException", err |-> TRUE],
     [reason |-> "server.error", err |-> TRUE]}

\* The process when server.ts has been loaded and startServer() is about to
\* run: server and eventPublisher undefined, isShuttingDown false. start and
\* shutdown are the positions of startServer and gracefulShutdown, runs
\* counts the times the shutdown sequence was entered, closed lists what has
\* been closed, in order, and exit is the exit code (-1 while running).
LoadedProcess ==
    [isShuttingDown |-> FALSE, server |-> "undefined", eventPublisher |-> FALSE,
     database |-> "uninitialized", start |-> "initializeDatabase", shutdown |-> "idle",
     err |-> FALSE, runs |-> 0, signals |-> 0, closed |-> <<>>, exit |-> -1]

\* One await of startServer returns and it runs on to the next: the database
\* is initialized, the permissions ensured, the publisher taken from the
\* container and connected (or not: the failure is tolerated), the HTTP
\* server created and set to listen.
StartServerStep ==
    /\ sys.exit = -1
    /\ sys.start # "done"
    /\ sys' =
         CASE sys.start = "initializeDatabase" ->
                [sys EXCEPT !.start = "ensurePermissionsExist",
                            !.database = IF sys.database = "closed" THEN "closed" ELSE "open"]
           [] sys.start = "ensurePermissionsExist" ->
                [sys EXCEPT !.start = "connect", !.eventPublisher = TRUE]
           [] sys.start = "connect" ->
                [sys EXCEPT !.start = "done", !.server = "listening"]
    /\ UNCHANGED <<users, roles, userRoles, rolePerms, config, now, gen, issued, req,
                   call, publisher, brokerUp, procs>>

\* initializeDatabase() throws: startServer's catch shuts tracing down and
\* exits with 1.
StartServerFails ==
    /\ sys.exit = -1
    /\ sys.start = "initializeDatabase"
    /\ sys' = [sys EXCEPT !.start = "done", !.exit = 1]
    /\ UNCHANGED <<users, roles, userRoles, rolePerms, config, now, gen, issued, req,
                   call, publisher, brokerUp, procs>>

\* gracefulShutdown(reason, err) up to its first await: nothing when a
\* shutdown is under way; else the flag is set and closeHttp() runs, which
\* resolves at once without a server and calls server.close() with one.
GracefulShutdown(r) ==
    /\ sys.exit = -1
    /\ sys.signals < MaxSignals
    /\ r.reason = "server.error" => sys.server = "listening"
    /\ sys' = IF sys.isShuttingDown
              THEN [sys EXCEPT !.signals = sys.signals + 1]
              ELSE [sys EXCEPT !.signals = sys.signals + 1,
                               !.isShuttingDown = TRUE,
                               !.err = r.err,
                               !.runs = sys.runs + 1,
                               !.shutdown = IF sys.server = "undefined" THEN "closeDatabase"
                                            ELSE "closeHttp",
                               !.server = IF sys.server = "listening" THEN "closing"
                                          ELSE sys.server]
    /\ UNCHANGED <<users, roles, userRoles, rolePerms, config, now, gen, issued, req,
                   call, publisher, brokerUp, procs>>

\* server.close's callback: the HTTP server has closed (its sockets ended,
\* or were destroyed after the timeout), and closeHttp() resolves.
HttpServerClosed ==
    /\ sys.exit = -1
    /\ sys.shutdown = "closeHttp"
    /\ sys' = [sys EXCEPT !.server = "closed", !.shutdown = "closeDatabase",
                          !.closed = Append(sys.closed, "http")]
    /\ UNCHANGED <<users, roles, userRoles, rolePerms, config, now, gen, issued, req,
                   call, publisher, brokerUp, procs>>

\* One await of closeResources returns and it runs on: closeDatabase, then
\* eventPublisher.disconnect() if there is a publisher, then
\* shutdownTracing; an error in any of them is logged and the next one runs.
CloseResourcesStep ==
    /\ sys.exit = -1
    /\ sys.shutdown \in {"closeDatabase", "disconnect", "shutdownTracing"}
    /\ sys' =
         CASE sys.shutdown = "closeDatabase" ->
                [sys EXCEPT !.shutdown = "disconnect", !.database = "closed",
                            !.closed = Append(sys.closed, "database")]
           [] sys.shutdown = "disconnect" ->
                [sys EXCEPT !.shutdown = "shutdownTracing",
                            !.closed = IF sys.eventPublisher
                                       THEN Append(sys.closed, "publisher")
                                       ELSE sys.closed]
           [] sys.shutdown = "shutdownTracing" ->
                [sys EXCEPT !.shutdown = "exit", !.closed = Append(sys.closed, "tracing")]
    /\ UNCHANGED <<users, roles, userRoles, rolePerms, config, now, gen, issued, req,
                   call, publisher, brokerUp, procs>>

\* process.exit(err ? 1 : 0)
ProcessExit ==
    /\ sys.exit = -1
    /\ sys.shutdown = "exit"
    /\ sys' = [sys EXCEPT !.exit = IF sys.err THEN 1 ELSE 0, !.shutdown = "exited"]
    /\ UNCHANGED <<users, roles, userRoles, rolePerms, config, now, gen, issued, req,
                   call, publisher, brokerUp, procs>>

InitShutdown ==
    /\ users = <<>>
    /\ roles = <<>>
    /\ rolePerms = {}
    /\ userRoles = {}
    /\ config = JwtConfig(TRUE, <<>>)
    /\ now = 0
    /\ gen = GenIdle("", "none")
    /\ issued = NoCredential
    /\ req = NoRequest
    /\ call = NoCall
    /\ brokerUp = TRUE
    /\ publisher = ConstructedPublisher
    /\ procs = NoProcs
    /\ sys = LoadedProcess

NextShutdown ==
    \/ StartServerStep
    \/ StartServerFails
    \/ \E r \in ShutdownReasons : GracefulShutdown(r)
    \/ HttpServerClosed
    \/ CloseResourcesStep
    \/ ProcessExit

SpecShutdown == InitShutdown /\ [][NextShutdown]_vars

\* The place of a closing in the order the sequence is to follow.
ClosingRank(what) ==
    CASE what = "http" -> 1 [] what = "database" -> 2 [] what = "publisher" -> 3
      [] what = "tracing" -> 4

\* C30: the shutdown sequence is entered at most once however many signals
\* or fatal errors arrive; what it closes, it closes in the order HTTP
\* server, database, event publisher, tracing; and from the moment it closes
\* the database on no HTTP server is listening, and when it exits the
\* process the database and tracing have been closed.
C30_ShutdownOnceAndInOrder ==
    /\ sys.runs <= 1
    /\ \A i, j \in DOMAIN sys.closed :
          i < j => ClosingRank(sys.closed[i]) < ClosingRank(sys.closed[j])
    /\ (\E i \in DOMAIN sys.closed : sys.closed[i] = "database") =>
          sys.server # "listening"
    /\ sys.shutdown = "exited" =>
          /\ sys.server # "listening"
          /\ \E i \in DOMAIN sys.closed : sys.closed[i] = "database"
          /\ \E i \in DOMAIN sys.closed : sys.closed[i] = "tracing"

====
